---------------------------- MODULE Spec2Model ----------------------------
(***************************************************************************)
(* A model of the sense_client egress path of sinain-hud:                  *)
(*   - DecisionGate            (src/sense_client/gate.py)                  *)
(*   - WebSocketSender         (src/sense_client/sender.py)                *)
(*   - OCRCache                (src/sense_client/ocr_cache.py)             *)
(*   - DeltaEncoder, SemanticBuilder (src/sense_client/semantic.py)        *)
(*   - FastGate, ChangeDetector (src/sense_client/change_detector.py)      *)
(* Each component has its own specification (GateSpec, SenderSpec, ...);   *)
(* the variables of the other components stay at their initial values.    *)
(***************************************************************************)
EXTENDS Integers, Sequences, FiniteSets, TLC

VARIABLES
    \* ---- DecisionGate (gate.py:33-48) ----
    now,                 \* value of time.time() * 1000 at the latest classify call
    last_send_ts,
    last_context_ts,
    last_app_change_ts,
    recent_texts,        \* deque(maxlen=5) of accepted OCR texts
    last_sent_text,
    returned,            \* what the latest classify call returned
    \* history of what classify has emitted (kept to the last two of a kind)
    context_log,         \* ts of the emitted context events
    text_log,            \* ocr of the emitted text events
    \* ---- WebSocketSender (sender.py:46-74) ----
    max_queue_size,      \* max_queue_size, set by the constructor
    queue,               \* _queue: the (priority, timestamp, QueuedEvent) tuples
    connected,           \* _connected
    running,             \* _running
    backpressure_until,  \* _backpressure_until
    events_sent,
    events_dropped,
    reconnect_count,
    clk,                 \* time.time() as the sender's threads read it
    \* producers: threads inside send()
    ppc,                 \* per producer: "idle", or "put" (past the size test)
    pev,                 \* per producer: the QueuedEvent being enqueued
    ret,                 \* per producer: what its latest send() returned
    next_id,             \* number of send() calls made so far
    \* the sender thread (_run_loop / _async_loop / _process_queue)
    wpc,                 \* where the sender task is
    held,                \* the queue item whose QueuedEvent the task took
    held_deq,            \* the clock when it was taken
    \* the connection and the relay behind it
    conn_open,           \* the socket is open
    inbox,               \* acks written by the relay, not yet read by recv()
    unacked,             \* messages written on this connection, ack not yet read
    \* history
    awaiting,            \* ids whose ack the sender task is waiting for
    tx_count,            \* per id: times written to the socket without error
    sent_count,          \* per id: times counted in events_sent
    tx_log,              \* the last two transmissions
    refused,             \* ids of the events send() refused
    dropped_log,         \* the events dropped after failed transmissions
    wait_log,            \* the sleeps of _async_loop after failed connection attempts
    \* ---- OCRCache (ocr_cache.py:49-62) ----
    cache,               \* _cache: the OrderedDict, oldest entry first
    hits,
    misses,
    evictions,
    \* the pool threads inside get_or_compute
    tpc,                 \* per thread: where it is
    timg,                \* per thread: the image it was called with
    tres,                \* per thread: the OCRResult it holds
    tret,                \* per thread: what its latest call returned
    ncalls,              \* number of get_or_compute calls made so far
    \* history
    ocr_calls,           \* per cache key: times ocr_func was invoked
    goc_returns,         \* per cache key: the results get_or_compute returned
    touch_order,         \* the cache keys, least recently read or written first
    \* ---- DeltaEncoder (semantic.py:179-186) ----
    last_text,
    last_lines,
    deltas,              \* what the latest encode call returned
    text_deltas,         \* text_deltas of the latest SemanticState built
    \* history
    op_log,              \* the last three operations on the encoder
    \* ---- ChangeDetector and its FastGate (change_detector.py:35-49, 104-122) ----
    prev_frame,          \* the previous-grayscale key frame
    prev_hash,           \* fast_gate.prev_hash
    threshold,           \* the SSIM threshold, in hundredths
    ssim_calls,
    ssim_bypassed,
    frames_checked,
    frames_rejected,
    detected,            \* what the latest detect call returned
    \* history
    detect_exit,         \* where the latest detect call returned
    key_before,          \* prev_frame when the latest detect call began
    hash_before,         \* prev_hash when the latest detect call began
    detect_raised,       \* the latest detect call ended by an exception
    \* the orchestrator loop of sense_client
    ocr_raw,             \* ocr_result.text of the latest iteration
    builder_text,        \* ocr_text the latest add_event call was given
    gate_text,           \* ocr.text the latest classify call was given
    handed,              \* event the latest iteration gave to sender.send
    \* the wearable Sender and its OpenClawGateway; times are kept relative
    \* to the present reading of time.monotonic(), in seconds
    in_flight,           \* Sender._in_flight
    sends_skipped,       \* Sender._sends_skipped
    cpc,                 \* where each calling task is in send_frame/send_audio
    is_connected,        \* OpenClawGateway.is_connected
    pending,             \* callers whose agent RPC is in _pending
    rpc_timer,           \* time left until the timeout_handle of each RPC is due
    recent_failures,     \* _recent_failures, as the age of each entry
    circuit_open,        \* _circuit_open
    circuit_reset_s,     \* _circuit_reset_s
    circuit_reset_timer, \* time left until reset_circuit is due, or NoTimer
    \* history of the wearable sender, for the properties
    last_step,           \* what the latest step was and did
    failure_log,         \* ages of the RPC failures of the last window
    trips,               \* trips of the breaker since the latest successful RPC
    open_for,            \* how long the breaker has been open
    open_period,         \* _circuit_reset_s when the breaker opened last
    refused_open,        \* a send was refused since the breaker opened last
    \* the adaptive SSIM threshold of the orchestrator loop (__main__.py:124-127)
    now_sec,             \* time.time() as the loop read it last, in seconds
    last_app_change_time,
    frame_app_changed,   \* app_changed of the latest frame
    loop_pc,             \* where the loop is: "top" or "detect"
    \* ---- ActivityClassifier (semantic.py:95-102) ----
    last_activity,
    activity_start_ts,   \* in seconds
    cls_now,             \* time.time() at the latest classify call, in seconds
    activity,            \* what the latest classify call returned
    signals_log,         \* the signals and the text of the latest classify call
    \* ---- RegionTracker (region_tracker.py:55-77) ----
    grid,                \* per cell: its RegionStats, last_change_ts as the time since
    total_analyses,
    stable_regions_skipped,
    changed_regions,     \* what the latest analyze call returned
    \* ---- ContextBuilder (context_builder.py:40-54) ----
    history,             \* _history: deque(maxlen=max_history) of snapshots
    ctx_next_id,         \* _next_id
    total_snapshots,
    ctx_now,             \* time.time() at the latest add_event, in seconds
    query_params,        \* the ContextQuery of the latest query call
    query_events,        \* ids of the events the latest query call returned
    ctx_last_op,         \* the latest operation: "add" or "query"
    \* the two threads inside "self.events_dropped += 1" (sender.py:102, 210)
    pread,               \* per producer: the value of events_dropped it loaded
    wread,               \* the value of events_dropped the sender task loaded
    \* ---- OpenClawGateway: the connection (gateway.py:57-68) ----
    gw_pc,               \* where run() is: "idle", "listen" or "backoff"
    gw_ws,               \* _ws: "none", "open" or "closed"
    authenticated,       \* _authenticated
    gw_reconnect_delay,  \* _reconnect_delay, in seconds
    rpc_id,              \* _rpc_id
    gw_pending,          \* the ids in _pending
    \* history
    challenged,          \* the server sent its challenge on this connection
    conn_phase,          \* how far the connect exchange of the connection got
    last_rpc,            \* what the latest send_agent_rpc call met and did
    \* ---- OpenClawGateway: an RPC whose request could not be written ----
    orphan_timer         \* time left on the timer of such an RPC, or NoTimer

gateVars == <<now, last_send_ts, last_context_ts, last_app_change_ts,
              recent_texts, last_sent_text, returned, context_log, text_log>>

senderVars == <<max_queue_size, queue, connected, running, backpressure_until, events_sent,
                events_dropped, reconnect_count, clk, ppc, pev, ret, next_id,
                wpc, held, held_deq, conn_open, inbox, unacked, awaiting, tx_count,
                sent_count, tx_log, refused, dropped_log, wait_log>>

cacheVars == <<cache, hits, misses, evictions, tpc, timg, tres, tret, ncalls,
               ocr_calls, goc_returns, touch_order>>

encoderVars == <<last_text, last_lines, deltas, text_deltas, op_log>>

detectorVars == <<prev_frame, prev_hash, threshold, ssim_calls, ssim_bypassed,
                  frames_checked, frames_rejected, detected, detect_exit,
                  key_before, hash_before, detect_raised>>

loopVars == <<ocr_raw, builder_text, gate_text, handed>>

wearableVars == <<in_flight, sends_skipped, cpc, is_connected, pending,
                  rpc_timer, recent_failures, circuit_open, circuit_reset_s,
                  circuit_reset_timer, last_step, failure_log, trips, open_for,
                  open_period, refused_open>>

adaptiveVars == <<now_sec, last_app_change_time, frame_app_changed, loop_pc>>

classifierVars == <<last_activity, activity_start_ts, cls_now, activity, signals_log>>

trackerVars == <<grid, total_analyses, stable_regions_skipped, changed_regions>>

contextVars == <<history, ctx_next_id, total_snapshots, ctx_now, query_params, query_events, ctx_last_op>>

raceVars == <<pread, wread>>

gatewayVars == <<gw_pc, gw_ws, authenticated, gw_reconnect_delay, rpc_id, gw_pending, challenged, conn_phase, last_rpc>>

orphanVars == <<orphan_timer>>

vars == <<gateVars, senderVars, cacheVars, encoderVars, detectorVars,
          loopVars, wearableVars,
    adaptiveVars,
    classifierVars,
    trackerVars,
    contextVars,
    raceVars,
    gatewayVars,
    orphanVars>>

\* What a step of one component leaves alone.
notGateVars == <<senderVars, cacheVars, encoderVars, detectorVars, loopVars,
    wearableVars,
    adaptiveVars,
    classifierVars,
    trackerVars,
    contextVars,
    raceVars,
    gatewayVars,
    orphanVars>>

notSenderVars == <<gateVars, cacheVars, encoderVars, detectorVars, loopVars,
    wearableVars,
    adaptiveVars,
    classifierVars,
    trackerVars,
    contextVars,
    raceVars,
    gatewayVars,
    orphanVars>>

notCacheVars == <<gateVars, senderVars, encoderVars, detectorVars, loopVars,
    wearableVars,
    adaptiveVars,
    classifierVars,
    trackerVars,
    contextVars,
    raceVars,
    gatewayVars,
    orphanVars>>

notEncoderVars == <<gateVars, senderVars, cacheVars, detectorVars, loopVars,
    wearableVars,
    adaptiveVars,
    classifierVars,
    trackerVars,
    contextVars,
    raceVars,
    gatewayVars,
    orphanVars>>

notDetectorVars == <<gateVars, senderVars, cacheVars, encoderVars, loopVars,
    wearableVars,
    adaptiveVars,
    classifierVars,
    trackerVars,
    contextVars,
    raceVars,
    gatewayVars,
    orphanVars>>

\* The orchestrator loop drives the gate.
notLoopVars == <<senderVars, cacheVars, encoderVars, detectorVars,
                 wearableVars,
    adaptiveVars,
    classifierVars,
    trackerVars,
    contextVars,
    raceVars,
    gatewayVars,
    orphanVars>>

notWearableVars == <<gateVars, senderVars, cacheVars, encoderVars,
                     detectorVars, loopVars,
    adaptiveVars,
    classifierVars,
    trackerVars,
    contextVars,
    raceVars,
    gatewayVars,
    orphanVars>>

notClassifierVars == <<gateVars, senderVars, cacheVars, encoderVars,
                       detectorVars, loopVars, wearableVars, adaptiveVars,
    trackerVars,
    contextVars,
    raceVars,
    gatewayVars,
    orphanVars>>

notTrackerVars == <<gateVars, senderVars, cacheVars, encoderVars,
                    detectorVars, loopVars, wearableVars, adaptiveVars,
                    classifierVars,
    contextVars,
    raceVars,
    gatewayVars,
    orphanVars>>

\* add_event calls SemanticBuilder.build, which drives the delta encoder.
notContextVars == <<gateVars, senderVars, cacheVars, detectorVars, loopVars,
                    wearableVars, adaptiveVars, classifierVars, trackerVars,
    raceVars,
    gatewayVars,
    orphanVars>>

\* The steps of "events_dropped += 1" belong to the sender.
notRaceVars == <<gateVars, cacheVars, encoderVars, detectorVars, loopVars,
                 wearableVars, adaptiveVars, classifierVars, trackerVars,
                 contextVars,
    gatewayVars,
    orphanVars>>

notGatewayVars == <<gateVars, senderVars, cacheVars, encoderVars,
                    detectorVars, loopVars, wearableVars, adaptiveVars,
                    classifierVars, trackerVars, contextVars, raceVars,
    orphanVars>>

notInFlightVars == <<gateVars, senderVars, cacheVars, encoderVars,
                     detectorVars, loopVars, adaptiveVars, classifierVars,
                     trackerVars, contextVars, raceVars, gatewayVars>>

-----------------------------------------------------------------------------
(* Small helpers *)

\* The last two elements of a history after appending x.
KeepLast2(log, x) == IF Len(log) = 0 THEN <<x>> ELSE <<log[Len(log)], x>>

-----------------------------------------------------------------------------
(* DecisionGate: configuration *)

\* Constructor defaults of DecisionGate.
cooldown_ms == 5000

adaptive_cooldown_ms == 2000

context_cooldown_ms == 10000

\* "recent app change" window of classify and is_ready, in ms.
RecentAppChangeMs == 10000

\* major_change_threshold 0.85, in hundredths of SSIM.
major_change_threshold == 85

\* maxlen of the _recent_texts deque.
RecentTextsMaxLen == 5

\* min_ocr_chars is configuration (default 20); the model runs the gate with a
\* small value so that short texts on both sides of it are in TextPool.
min_ocr_chars == 4

\* time.time() * 1000 at the first classify call, and how far the model lets
\* the clock run.  The real clock starts far above every cooldown; so does this.
Epoch == 20000

Horizon == 10000

\* The clock advances between two classify calls by one of these (ms).
TimeSteps == {0, 1000}

-----------------------------------------------------------------------------
(* OCR texts: sequences of one-character strings *)

Str_abcdefghij == <<"a", "b", "c", "d", "e", "f", "g", "h", "i", "j">>

Str_abcdefgxyz == <<"a", "b", "c", "d", "e", "f", "g", "x", "y", "z">>

Str_abcdefghix == <<"a", "b", "c", "d", "e", "f", "g", "h", "i", "x">>

Str_abc == <<"a", "b", "c">>

\* "a b c": every token has one character.
Str_a_b_c == <<"a", " ", "b", " ", "c">>

\* "##a##": one alphanumeric character in five.
Str_hash == <<"#", "#", "a", "#", "#">>

TextPool == {<<>>, Str_abc, Str_abcdefghij, Str_abcdefgxyz, Str_abcdefghix,
             Str_a_b_c, Str_hash}

\* SSIM scores (hundredths) a ChangeResult may carry.
SsimPool == {80, 85}

NoChange == -1

IsSpace(c) == c = " "

\* str.isalnum for the characters of the pool.
IsAlnum(c) == c \notin {" ", "#", "<", ">", "/", "=", ":", "[", "]"}

-----------------------------------------------------------------------------
(* difflib.SequenceMatcher(None, a, b).ratio(), no junk (texts below 200      *)
(* characters, so autojunk is off).                                          *)

\* Length of the common run of a[i..ahi] and b[j..bhi] starting at (i, j).
RECURSIVE RunLen(_, _, _, _, _, _)
RunLen(a, b, i, j, ahi, bhi) ==
    IF i > ahi \/ j > bhi \/ a[i] # b[j] THEN 0
    ELSE 1 + RunLen(a, b, i + 1, j + 1, ahi, bhi)

\* find_longest_match(alo, ahi, blo, bhi): the longest matching block, and of
\* those the one starting earliest in a, and of those earliest in b.
\* Bounds are inclusive and 1-based here; a block is <<i, j, k>>.
FindLongestMatch(a, b, alo, ahi, blo, bhi) ==
    LET cands == {<<i, j, RunLen(a, b, i, j, ahi, bhi)>> : i \in alo..ahi, j \in blo..bhi}
        best  == CHOOSE k \in {c[3] : c \in cands} : \A c \in cands : c[3] <= k
        longest == {c \in cands : c[3] = best}
        i0 == CHOOSE i \in {c[1] : c \in longest} : \A c \in longest : i <= c[1]
        atI == {c \in longest : c[1] = i0}
        j0 == CHOOSE j \in {c[2] : c \in atI} : \A c \in atI : j <= c[2]
    IN  <<i0, j0, best>>

\* Sum of the sizes of get_matching_blocks(): the longest match, then the same
\* to its left and to its right.
RECURSIVE MatchCount(_, _, _, _, _, _)
MatchCount(a, b, alo, ahi, blo, bhi) ==
    IF alo > ahi \/ blo > bhi THEN 0
    ELSE LET m == FindLongestMatch(a, b, alo, ahi, blo, bhi)
         IN  IF m[3] = 0 THEN 0
             ELSE m[3]
                  + MatchCount(a, b, alo, m[1] - 1, blo, m[2] - 1)
                  + MatchCount(a, b, m[1] + m[3], ahi, m[2] + m[3], bhi)

Matches(a, b) == MatchCount(a, b, 1, Len(a), 1, Len(b))

\* ratio() = 2.0 * matches / (len(a) + len(b)), 1.0 when both are empty;
\* ratio() > 0.7, in integers.
RatioAbove07(a, b) ==
    IF Len(a) + Len(b) = 0 THEN TRUE
    ELSE 20 * Matches(a, b) > 7 * (Len(a) + Len(b))

-----------------------------------------------------------------------------
(* DecisionGate *)

NoEvent == [type |-> "none", ts |-> 0, ocr |-> <<>>]

SenseEvent(type, ts, ocr) == [type |-> type, ts |-> ts, ocr |-> ocr]

\* deque(maxlen=5).append
DequeAppend(dq, x) ==
    IF Len(dq) < RecentTextsMaxLen THEN Append(dq, x)
    ELSE Append(Tail(dq), x)

\* The pairs <<prev, text>> of the pool with
\* SequenceMatcher(None, prev, text).ratio() > 0.7, computed once.
SimilarPairs == {p \in TextPool \X TextPool : RatioAbove07(p[1], p[2])}

\* IsDuplicate without the fuzzy comparison against the ring buffer.
IsDuplicate_exact_only(text) == text = last_sent_text

\* DecisionGate._is_duplicate
IsDuplicate(text) ==
    \/ text = last_sent_text
    \/ \E k \in 1..Len(recent_texts) : <<recent_texts[k], text>> \in SimilarPairs

\* text.split(): a token starts at a non-space character that follows a space
\* or the start of the text.
TokenStarts(text) ==
    {i \in 1..Len(text) : ~IsSpace(text[i]) /\ (i = 1 \/ IsSpace(text[i - 1]))}

SingleCharTokens(text) ==
    {i \in TokenStarts(text) : i = Len(text) \/ IsSpace(text[i + 1])}

\* DecisionGate._ocr_quality_ok
OcrQualityOk(text) ==
    LET tokens == Cardinality(TokenStarts(text))
        single_char == Cardinality(SingleCharTokens(text))
        alnum == Cardinality({i \in 1..Len(text) : IsAlnum(text[i])})
        total == Cardinality({i \in 1..Len(text) : ~IsSpace(text[i])})
    IN  /\ tokens # 0
        /\ ~(2 * single_char > tokens)
        /\ ~(total > 0 /\ 2 * alnum < total)

\* TextSufficient without the length test.
TextSufficient_nonempty(text) == Len(text) > 0

\* classify, line 111: "if ocr.text and len(ocr.text) >= self.min_ocr_chars"
TextSufficient(text) == Len(text) > 0 /\ Len(text) >= min_ocr_chars

\* ContextCooldownOver measured against the adaptive cooldown instead.
ContextCooldownOver_adaptive(t) == t - last_context_ts >= adaptive_cooldown_ms

\* classify, line 96: the context cooldown has run out at time t
ContextCooldownOver(t) == t - last_context_ts >= context_cooldown_ms

EffectiveCooldown_none(t, app_ts) == 0

\* classify, lines 102-103, with last_app_change_ts as it is at that point
EffectiveCooldown(t, app_ts) ==
    IF t - app_ts < RecentAppChangeMs THEN adaptive_cooldown_ms ELSE cooldown_ms

\* is_ready(app_changed, window_changed) called at time t, lines 50-60; it
\* assigns nothing.
is_ready(t, app_changed, window_changed) ==
    IF app_changed \/ window_changed THEN TRUE
    ELSE t - last_send_ts >= EffectiveCooldown(t, last_app_change_ts)

GateInit ==
    /\ now = Epoch
    /\ last_send_ts = 0
    /\ last_context_ts = 0
    /\ last_app_change_ts = 0
    /\ recent_texts = <<>>
    /\ last_sent_text = <<>>
    /\ returned = NoEvent
    /\ context_log = <<>>
    /\ text_log = <<>>

\* DecisionGate.classify(change, ocr, app_changed, window_changed) called at
\* time t; change is NoChange or the ChangeResult's ssim_score, text is ocr.text.
Classify(t, change, text, app_changed, window_changed) ==
    LET flagged == app_changed \/ window_changed
        app_ts  == IF flagged THEN t ELSE last_app_change_ts
    IN
    /\ now' = t
    /\ last_app_change_ts' = app_ts
    /\ IF flagged /\ ContextCooldownOver(t)
       THEN \* context event
            /\ last_context_ts' = t
            /\ last_send_ts' = t
            /\ returned' = SenseEvent("context", t, <<>>)
            /\ context_log' = KeepLast2(context_log, t)
            /\ UNCHANGED <<recent_texts, last_sent_text, text_log>>
       ELSE IF t - last_send_ts < EffectiveCooldown(t, app_ts) \/ change = NoChange
       THEN \* cooldown running, or nothing changed on screen
            /\ returned' = NoEvent
            /\ UNCHANGED <<last_context_ts, last_send_ts, recent_texts,
                           last_sent_text, context_log, text_log>>
       ELSE IF TextSufficient(text)
       THEN IF IsDuplicate(text) \/ ~OcrQualityOk(text)
            THEN /\ returned' = NoEvent
                 /\ UNCHANGED <<last_context_ts, last_send_ts, recent_texts,
                                last_sent_text, context_log, text_log>>
            ELSE \* text event
                 /\ recent_texts' = DequeAppend(recent_texts, text)
                 /\ last_sent_text' = text
                 /\ last_send_ts' = t
                 /\ returned' = SenseEvent("text", t, text)
                 /\ text_log' = KeepLast2(text_log, text)
                 /\ UNCHANGED <<last_context_ts, context_log>>
       ELSE IF change < major_change_threshold
       THEN \* visual event
            /\ last_send_ts' = t
            /\ returned' = SenseEvent("visual", t, text)
            /\ UNCHANGED <<last_context_ts, recent_texts, last_sent_text,
                           context_log, text_log>>
       ELSE /\ returned' = NoEvent
            /\ UNCHANGED <<last_context_ts, last_send_ts, recent_texts,
                           last_sent_text, context_log, text_log>>

\* One call of classify by the orchestrator loop, some time after the last one.
ClassifyCall ==
    \E dt \in TimeSteps, change \in SsimPool \cup {NoChange}, text \in TextPool,
       app_changed \in BOOLEAN, window_changed \in BOOLEAN :
        /\ now + dt <= Epoch + Horizon
        /\ Classify(now + dt, change, text, app_changed, window_changed)

-----------------------------------------------------------------------------
(* WebSocketSender: configuration *)

\* Priority (IntEnum)
URGENT == 0

HIGH == 1

NORMAL == 2

Priorities == {URGENT, HIGH, NORMAL}

\* The priorities the producers of the model send with.
SentPriorities == {URGENT, NORMAL}

\* max_queue_size is configuration (default 100); the model runs senders
\* with small queues so that they fill.
QueueSizes == {1, 2}

\* "if queued.attempts < 3": the number of failed transmissions that drops an event.
MaxAttempts == 3

\* __init__, line 47: reconnect_delay, in seconds.
reconnect_delay == 2

\* Number of send() calls the model follows.
MaxEvents == 2

\* How far the clock runs on its own (enqueueing always moves it).
MaxClock == 1

\* Number of failed connection attempts the model follows.
MaxReconnects == 2

\* Number of acks that may wait unread on the connection.
MaxInbox == 1

\* The backpressure value (clock ticks) the relay may put in an ack.
BackpressureTicks == 2

\* The threads that call send().
Producers == {"p1", "p2"}

EventIds == 1..MaxEvents

\* What the relay may answer to a message:
\*   "empty"        {}
\*   "backpressure" {"backpressure": B} with B > 0
\*   "other"        a JSON object without a backpressure field, e.g. {"status": "ok"}
\*   "malformed"    anything json.loads or .get("backpressure", 0) > 0 fails on:
\*                  text that is not JSON, a JSON array, {"backpressure": null}
AckKinds == {"empty", "backpressure", "other", "malformed"}

None == [id |-> 0, priority |-> 0, attempts |-> 0]

\* QueuedEvent(priority, ts, payload, attempts); the payload is named by its id.
QueuedEvent(id, priority) == [id |-> id, priority |-> priority, attempts |-> 0]

\* The tuple (priority, timestamp, queued) put on the PriorityQueue.
QueueItem(kp, kts, ev) == [kp |-> kp, kts |-> kts, ev |-> ev]

NoItem == QueueItem(0, 0, None)

\* A heap that orders by timestamp alone.
KeyLess_ts_only(x, y) == x.kts < y.kts

\* Tuple order of the heap on (priority, timestamp).
KeyLess(x, y) == x.kp < y.kp \/ (x.kp = y.kp /\ x.kts < y.kts)

\* PriorityQueue.get on a FIFO queue instead: the oldest item.
QueueGet_fifo(q) == CHOOSE x \in q : \A y \in q : x.kts <= y.kts

\* PriorityQueue.get: the least item.
QueueGet(q) == CHOOSE x \in q : \A y \in q \ {x} : KeyLess(x, y)

\* The size test of send() with > for >=.
QueueFull_gt(n) == n > max_queue_size

\* send(), line 101: "if self._queue.qsize() >= self.max_queue_size"
QueueFull(n) == n >= max_queue_size

\* RetryAllowed with <= for <.
RetryAllowed_le(attempts) == attempts <= MaxAttempts

\* _process_queue, line 206: "if queued.attempts < 3"
RetryAllowed(attempts) == attempts < MaxAttempts

\* A sender task that does not wait for the ack of what it wrote.
AfterSend_no_wait == "loop"

\* _process_queue, lines 184-188: after ws.send the task awaits ws.recv
AfterSend == "recv"

\* A backpressure test that ends one clock tick early.
BackpressureOn_early == clk + 1 < backpressure_until

\* _process_queue, lines 170-171: "if now < self._backpressure_until"
BackpressureOn == clk < backpressure_until

\* The places of the sender task inside _process_queue.
InProcessQueue == {"loop", "bp_sleep", "empty_sleep", "send", "recv"}

SenderInit ==
    /\ max_queue_size \in QueueSizes
    /\ queue = {}
    /\ connected = FALSE
    /\ running = FALSE
    /\ backpressure_until = 0
    /\ events_sent = 0
    /\ events_dropped = 0
    /\ reconnect_count = 0
    /\ clk = 1
    /\ ppc = [p \in Producers |-> "idle"]
    /\ pev = [p \in Producers |-> None]
    /\ ret = [p \in Producers |-> "none"]
    /\ next_id = 0
    /\ wpc = "init"
    /\ held = NoItem
    /\ held_deq = 0
    /\ conn_open = FALSE
    /\ inbox = <<>>
    /\ unacked = 0
    /\ awaiting = {}
    /\ tx_count = [i \in EventIds |-> 0]
    /\ sent_count = [i \in EventIds |-> 0]
    /\ tx_log = <<>>
    /\ refused = {}
    /\ dropped_log = {}
    /\ wait_log = <<>>

-----------------------------------------------------------------------------
(* WebSocketSender: the producers *)

producerVars == <<ppc, pev, ret, next_id, refused>>

workerVars == <<wpc, held, held_deq>>

flagVars == <<connected, running>>

netVars == <<conn_open, inbox, unacked>>

histVars == <<awaiting, tx_count, sent_count, tx_log, dropped_log, wait_log>>

\* start(): the sender thread is created.
Start ==
    /\ ~running
    /\ wpc = "init"
    /\ running' = TRUE
    /\ wpc' = "connect"
    /\ UNCHANGED <<max_queue_size, queue, connected, backpressure_until, events_sent,
                   events_dropped, reconnect_count, clk, producerVars, held,
                   held_deq, netVars, histVars>>

\* stop(): the flag is cleared; the sender thread sees it at its next test.
Stop ==
    /\ running
    /\ running' = FALSE
    /\ UNCHANGED <<max_queue_size, queue, connected, backpressure_until, events_sent,
                   events_dropped, reconnect_count, clk, producerVars,
                   workerVars, netVars, histVars>>

\* send(event, priority), lines 101-103: the size test, and the refusal.
\* Otherwise the thread goes on to build the payload and the QueuedEvent.
SendCheck(p, priority) ==
    /\ ppc[p] = "idle"
    /\ next_id < MaxEvents
    /\ next_id' = next_id + 1
    /\ IF QueueFull(Cardinality(queue))
       THEN /\ events_dropped' = events_dropped + 1
            /\ ret' = [ret EXCEPT ![p] = "False"]
            /\ refused' = refused \cup {next_id + 1}
            /\ UNCHANGED <<ppc, pev>>
       ELSE /\ ppc' = [ppc EXCEPT ![p] = "put"]
            /\ pev' = [pev EXCEPT ![p] = QueuedEvent(next_id + 1, priority)]
            /\ ret' = [ret EXCEPT ![p] = "none"]
            /\ UNCHANGED <<events_dropped, refused>>
    /\ UNCHANGED <<max_queue_size, queue, connected, running, backpressure_until, events_sent,
                   reconnect_count, clk, workerVars, netVars, histVars>>

\* send(), lines 111-112: the put, stamped with the clock, and return True.
SendPut(p) ==
    /\ ppc[p] = "put"
    /\ queue' = queue \cup {QueueItem(pev[p].priority, clk, pev[p])}
    /\ clk' = clk + 1
    /\ ppc' = [ppc EXCEPT ![p] = "idle"]
    /\ pev' = [pev EXCEPT ![p] = None]
    /\ ret' = [ret EXCEPT ![p] = "True"]
    /\ UNCHANGED <<max_queue_size, connected, running, backpressure_until, events_sent,
                   events_dropped, reconnect_count, next_id, refused,
                   workerVars, netVars, histVars>>

-----------------------------------------------------------------------------
(* WebSocketSender: the sender task *)

\* _async_loop, line 153: websockets.connect succeeds.
ConnectOk ==
    /\ wpc = "connect"
    /\ running
    /\ conn_open' = TRUE
    /\ inbox' = <<>>
    /\ unacked' = 0
    /\ connected' = TRUE
    /\ wpc' = "loop"
    /\ UNCHANGED <<max_queue_size, queue, running, backpressure_until, events_sent,
                   events_dropped, reconnect_count, clk, producerVars, held,
                   held_deq, histVars>>

\* _async_loop, lines 153 and 160-164: websockets.connect raises.
ConnectFail ==
    /\ wpc = "connect"
    /\ running
    /\ reconnect_count < MaxReconnects
    /\ connected' = FALSE
    /\ reconnect_count' = reconnect_count + 1
    /\ wait_log' = Append(wait_log, reconnect_delay)
    /\ wpc' = "backoff"
    /\ UNCHANGED <<max_queue_size, queue, running, backpressure_until, events_sent,
                   events_dropped, clk, producerVars, held, held_deq, netVars,
                   awaiting, tx_count, sent_count, tx_log, dropped_log>>

\* _async_loop, line 164: asyncio.sleep(self.reconnect_delay) is over.
BackoffDone ==
    /\ wpc = "backoff"
    /\ wpc' = "connect"
    /\ UNCHANGED <<max_queue_size, queue, flagVars, backpressure_until, events_sent,
                   events_dropped, reconnect_count, clk, producerVars, held,
                   held_deq, netVars, histVars>>

\* _async_loop, line 151: "while self._running" is false.
AsyncLoopExit ==
    /\ wpc = "connect"
    /\ ~running
    /\ wpc' = "done"
    /\ UNCHANGED <<max_queue_size, queue, flagVars, backpressure_until, events_sent,
                   events_dropped, reconnect_count, clk, producerVars, held,
                   held_deq, netVars, histVars>>

\* _process_queue, line 168: "while self._running and self._connected" is
\* false; _process_queue returns and "async with" closes the connection.
ProcessQueueExit ==
    /\ wpc = "loop"
    /\ ~(running /\ connected)
    /\ conn_open' = FALSE
    /\ wpc' = "connect"
    /\ UNCHANGED <<max_queue_size, queue, flagVars, backpressure_until, events_sent,
                   events_dropped, reconnect_count, clk, producerVars, held,
                   held_deq, inbox, unacked, histVars>>

\* _process_queue, lines 170-173: backpressure is on; sleep 0.1 s.
BackpressureWait ==
    /\ wpc = "loop"
    /\ running /\ connected
    /\ BackpressureOn
    /\ wpc' = "bp_sleep"
    /\ UNCHANGED <<max_queue_size, queue, flagVars, backpressure_until, events_sent,
                   events_dropped, reconnect_count, clk, producerVars, held,
                   held_deq, netVars, histVars>>

\* _process_queue, lines 177-180: the queue is empty; sleep 0.05 s.
GetEmpty ==
    /\ wpc = "loop"
    /\ running /\ connected
    /\ ~BackpressureOn
    /\ queue = {}
    /\ wpc' = "empty_sleep"
    /\ UNCHANGED <<max_queue_size, queue, flagVars, backpressure_until, events_sent,
                   events_dropped, reconnect_count, clk, producerVars, held,
                   held_deq, netVars, histVars>>

\* The sleep of line 172 or line 179 is over: back to the loop test.
SleepDone ==
    /\ wpc \in {"bp_sleep", "empty_sleep"}
    /\ wpc' = "loop"
    /\ UNCHANGED <<max_queue_size, queue, flagVars, backpressure_until, events_sent,
                   events_dropped, reconnect_count, clk, producerVars, held,
                   held_deq, netVars, histVars>>

\* _process_queue, line 177: self._queue.get returns the least item.
GetItem ==
    /\ wpc = "loop"
    /\ running /\ connected
    /\ ~BackpressureOn
    /\ queue # {}
    /\ held' = QueueGet(queue)
    /\ held_deq' = clk
    /\ queue' = queue \ {QueueGet(queue)}
    /\ wpc' = "send"
    /\ UNCHANGED <<max_queue_size, flagVars, backpressure_until, events_sent, events_dropped,
                   reconnect_count, clk, producerVars, netVars, histVars>>

\* _process_queue, lines 203-210: the except branch, for the held event.
\* histVars other than dropped_log are left to the caller.
SendError ==
    LET ev == [held.ev EXCEPT !.attempts = held.ev.attempts + 1]
    IN  /\ IF RetryAllowed(ev.attempts)
           THEN /\ queue' = queue \cup {QueueItem(ev.priority + 1, clk, ev)}
                /\ clk' = clk + 1
                /\ UNCHANGED <<events_dropped, dropped_log>>
           ELSE /\ events_dropped' = events_dropped + 1
                /\ dropped_log' = dropped_log \cup {ev}
                /\ UNCHANGED <<queue, clk>>
        /\ held' = NoItem
        /\ held_deq' = 0
        /\ wpc' = "loop"

\* _process_queue, line 184: ws.send writes the message.
WsSendOk ==
    /\ wpc = "send"
    /\ conn_open
    /\ unacked' = unacked + 1
    /\ awaiting' = awaiting \cup {held.ev.id}
    /\ tx_count' = [tx_count EXCEPT ![held.ev.id] = @ + 1]
    /\ tx_log' = KeepLast2(tx_log, [kp |-> held.kp, kts |-> held.kts,
                                    deq |-> held_deq, id |-> held.ev.id])
    /\ wpc' = AfterSend
    /\ UNCHANGED <<max_queue_size, queue, flagVars, backpressure_until, events_sent,
                   events_dropped, reconnect_count, clk, producerVars, held,
                   held_deq, conn_open, inbox, sent_count, dropped_log,
                   wait_log>>

\* _process_queue, line 184: ws.send raises on the closed connection.
WsSendRaises ==
    /\ wpc = "send"
    /\ ~conn_open
    /\ SendError
    /\ UNCHANGED <<max_queue_size, flagVars, backpressure_until, events_sent, reconnect_count,
                   producerVars, netVars, awaiting, tx_count, sent_count,
                   tx_log, wait_log>>

\* _process_queue, lines 188-197: an ack is read within the 2 s.
RecvAck ==
    /\ wpc = "recv"
    /\ inbox # <<>>
    /\ inbox' = Tail(inbox)
    /\ unacked' = unacked - 1
    /\ awaiting' = awaiting \ {held.ev.id}
    /\ IF Head(inbox) = "malformed"
       THEN \* json.loads, .get or the comparison raises: line 203
            /\ SendError
            /\ UNCHANGED <<backpressure_until, events_sent, sent_count>>
       ELSE /\ backpressure_until' =
                   IF Head(inbox) = "backpressure"
                   THEN clk + BackpressureTicks ELSE backpressure_until
            /\ events_sent' = events_sent + 1
            /\ sent_count' = [sent_count EXCEPT ![held.ev.id] = @ + 1]
            /\ held' = NoItem
            /\ held_deq' = 0
            /\ wpc' = "loop"
            /\ UNCHANGED <<queue, clk, events_dropped, dropped_log>>
    /\ UNCHANGED <<max_queue_size, flagVars, reconnect_count, producerVars, conn_open,
                   tx_count, tx_log, wait_log>>

\* _process_queue, lines 199-201: no ack within 2 s; counted as sent.
RecvTimeout ==
    /\ wpc = "recv"
    /\ inbox = <<>>
    /\ conn_open
    /\ awaiting' = awaiting \ {held.ev.id}
    /\ events_sent' = events_sent + 1
    /\ sent_count' = [sent_count EXCEPT ![held.ev.id] = @ + 1]
    /\ held' = NoItem
    /\ held_deq' = 0
    /\ wpc' = "loop"
    /\ UNCHANGED <<max_queue_size, queue, flagVars, backpressure_until, events_dropped,
                   reconnect_count, clk, producerVars, netVars, tx_count,
                   tx_log, dropped_log, wait_log>>

\* _process_queue, line 188: ws.recv raises ConnectionClosed.
RecvRaises ==
    /\ wpc = "recv"
    /\ inbox = <<>>
    /\ ~conn_open
    /\ awaiting' = awaiting \ {held.ev.id}
    /\ SendError
    /\ UNCHANGED <<max_queue_size, flagVars, backpressure_until, events_sent, reconnect_count,
                   producerVars, netVars, tx_count, sent_count, tx_log,
                   wait_log>>

WorkerNext ==
    \/ ConnectOk \/ ConnectFail \/ BackoffDone \/ AsyncLoopExit
    \/ ProcessQueueExit \/ BackpressureWait \/ GetEmpty \/ SleepDone
    \/ GetItem \/ WsSendOk \/ WsSendRaises \/ RecvAck \/ RecvTimeout
    \/ RecvRaises

-----------------------------------------------------------------------------
(* WebSocketSender: the relay, the network and the clock *)

\* The relay answers a message it has received and not yet answered.
RelayAck(kind) ==
    /\ conn_open
    /\ Len(inbox) < unacked
    /\ Len(inbox) < MaxInbox
    /\ inbox' = Append(inbox, kind)
    /\ UNCHANGED <<max_queue_size, queue, flagVars, backpressure_until, events_sent,
                   events_dropped, reconnect_count, clk, producerVars,
                   workerVars, conn_open, unacked, histVars>>

\* The connection closes while the sender task is in _process_queue.
ConnectionLost ==
    /\ conn_open
    /\ wpc \in InProcessQueue
    /\ conn_open' = FALSE
    /\ UNCHANGED <<max_queue_size, queue, flagVars, backpressure_until, events_sent,
                   events_dropped, reconnect_count, clk, producerVars,
                   workerVars, inbox, unacked, histVars>>

\* Time passes.
Tick ==
    /\ clk < MaxClock \/ clk < backpressure_until
    /\ clk' = clk + 1
    /\ UNCHANGED <<max_queue_size, queue, flagVars, backpressure_until, events_sent,
                   events_dropped, reconnect_count, producerVars, workerVars,
                   netVars, histVars>>

-----------------------------------------------------------------------------
(* OCRCache *)

\* max_size is configuration (default 1000, and 1000 in __main__); the model
\* runs a small cache so that it fills.
max_size == 2

\* Number of get_or_compute calls the model follows.
MaxCalls == 4

\* The threads of ocr_pool that run cached_extract.
PoolThreads == {"t1", "t2"}

\* The region images: "a" and "b" are different images with one content
\* fingerprint.
Images == {"a", "b", "c", "d"}

\* compute_hash: the content fingerprint of an image.
compute_hash(image) ==
    CASE image \in {"a", "b"} -> 1
      [] image = "c" -> 2
      [] image = "d" -> 3

CacheKeys == {compute_hash(image) : image \in Images}

\* ocr_func(image): the OCRResult of the backend for this image.
ocr_func(image) == [text |-> image]

NoResult == [text |-> ""]

\* CacheEntry: the result under its key.
CacheEntry(key, result) == [key |-> key, result |-> result]

KeysOf(c) == {c[i].key : i \in 1..Len(c)}

IndexOf(c, key) == CHOOSE i \in 1..Len(c) : c[i].key = key

\* OrderedDict.move_to_end(key)
MoveToEnd(c, key) ==
    Append(SelectSeq(c, LAMBDA e : e.key # key), c[IndexOf(c, key)])

\* OrderedDict.__setitem__: a new key goes to the end, an existing key keeps
\* its place and gets the new value.
SetItem(c, key, result) ==
    IF key \in KeysOf(c)
    THEN [c EXCEPT ![IndexOf(c, key)] = CacheEntry(key, result)]
    ELSE Append(c, CacheEntry(key, result))

\* The key goes to the most recently touched end of the history.
Touch(order, key) == Append(SelectSeq(order, LAMBDA k : k # key), key)

CacheInit ==
    /\ cache = <<>>
    /\ hits = 0
    /\ misses = 0
    /\ evictions = 0
    /\ tpc = [t \in PoolThreads |-> "idle"]
    /\ timg = [t \in PoolThreads |-> "a"]
    /\ tres = [t \in PoolThreads |-> NoResult]
    /\ tret = [t \in PoolThreads |-> "none"]
    /\ ncalls = 0
    /\ ocr_calls = [k \in CacheKeys |-> 0]
    /\ goc_returns = [k \in CacheKeys |-> {}]
    /\ touch_order = <<>>

counterVars == <<hits, misses, evictions>>

cacheHistVars == <<ocr_calls, goc_returns, touch_order>>

\* get_or_compute returns result (line 156 or 160).
Return(t, result) ==
    /\ tpc' = [tpc EXCEPT ![t] = "idle"]
    /\ tret' = [tret EXCEPT ![t] = result.text]
    /\ tres' = [tres EXCEPT ![t] = NoResult]
    /\ goc_returns' = [goc_returns EXCEPT ![compute_hash(timg[t])] =
                          @ \cup {result}]

\* A KeyError leaves get_or_compute.
RaiseKeyError(t) ==
    /\ tpc' = [tpc EXCEPT ![t] = "idle"]
    /\ tret' = [tret EXCEPT ![t] = "KeyError"]
    /\ tres' = [tres EXCEPT ![t] = NoResult]
    /\ UNCHANGED goc_returns

\* cached_extract(img) starts on a pool thread: get_or_compute, line 154,
\* and get, line 101.
GetOrCompute(t, image) ==
    /\ tpc[t] = "idle"
    /\ ncalls < MaxCalls
    /\ ncalls' = ncalls + 1
    /\ tpc' = [tpc EXCEPT ![t] = "get_test"]
    /\ timg' = [timg EXCEPT ![t] = image]
    /\ tret' = [tret EXCEPT ![t] = "none"]
    /\ UNCHANGED <<cache, counterVars, tres, cacheHistVars>>

\* get, lines 103-104 and 112-113: "if key in self._cache"; on a miss get
\* returns None and get_or_compute goes on to ocr_func.
GetTest(t) ==
    /\ tpc[t] = "get_test"
    /\ IF compute_hash(timg[t]) \in KeysOf(cache)
       THEN /\ hits' = hits + 1
            /\ tpc' = [tpc EXCEPT ![t] = "get_read"]
            /\ UNCHANGED misses
       ELSE /\ misses' = misses + 1
            /\ tpc' = [tpc EXCEPT ![t] = "ocr"]
            /\ UNCHANGED hits
    /\ UNCHANGED <<cache, evictions, timg, tres, tret, ncalls, cacheHistVars>>

\* get, lines 105-107: "entry = self._cache[key]"
GetRead(t) ==
    /\ tpc[t] = "get_read"
    /\ LET key == compute_hash(timg[t])
       IN  IF key \in KeysOf(cache)
           THEN /\ tres' = [tres EXCEPT ![t] = cache[IndexOf(cache, key)].result]
                /\ tpc' = [tpc EXCEPT ![t] = "get_move"]
                /\ UNCHANGED <<tret, goc_returns>>
           ELSE RaiseKeyError(t)
    /\ UNCHANGED <<cache, counterVars, timg, ncalls, ocr_calls, touch_order>>

\* get, lines 109-110, and get_or_compute, lines 155-156.
GetMove(t) ==
    /\ tpc[t] = "get_move"
    /\ LET key == compute_hash(timg[t])
       IN  IF key \in KeysOf(cache)
           THEN /\ cache' = MoveToEnd(cache, key)
                /\ touch_order' = Touch(touch_order, key)
                /\ Return(t, tres[t])
           ELSE /\ RaiseKeyError(t)
                /\ UNCHANGED <<cache, touch_order>>
    /\ UNCHANGED <<counterVars, timg, ncalls, ocr_calls>>

\* get_or_compute, line 158: "result = ocr_func(image)", then put, line 121.
OcrCall(t) ==
    /\ tpc[t] = "ocr"
    /\ tres' = [tres EXCEPT ![t] = ocr_func(timg[t])]
    /\ ocr_calls' = [ocr_calls EXCEPT ![compute_hash(timg[t])] = @ + 1]
    /\ tpc' = [tpc EXCEPT ![t] = "put_test"]
    /\ UNCHANGED <<cache, counterVars, timg, tret, ncalls, goc_returns,
                   touch_order>>

\* put, line 124: "if key in self._cache"
PutTest(t) ==
    /\ tpc[t] = "put_test"
    /\ tpc' = [tpc EXCEPT ![t] =
                  IF compute_hash(timg[t]) \in KeysOf(cache)
                  THEN "put_move" ELSE "put_loop"]
    /\ UNCHANGED <<cache, counterVars, timg, tres, tret, ncalls, cacheHistVars>>

\* put, lines 125-129: the entry is there; refresh it. get_or_compute
\* returns its own result (line 160).
PutMove(t) ==
    /\ tpc[t] = "put_move"
    /\ LET key == compute_hash(timg[t])
       IN  IF key \in KeysOf(cache)
           THEN /\ cache' = MoveToEnd(cache, key)
                /\ touch_order' = Touch(touch_order, key)
                /\ Return(t, tres[t])
           ELSE /\ RaiseKeyError(t)
                /\ UNCHANGED <<cache, touch_order>>
    /\ UNCHANGED <<counterVars, timg, ncalls, ocr_calls>>

\* put, line 132: "while len(self._cache) >= self.max_size"
PutLoop(t) ==
    /\ tpc[t] = "put_loop"
    /\ tpc' = [tpc EXCEPT ![t] =
                  IF Len(cache) >= max_size THEN "put_pop" ELSE "put_store"]
    /\ UNCHANGED <<cache, counterVars, timg, tres, tret, ncalls, cacheHistVars>>

\* put, lines 133-134: popitem(last=False); KeyError on an empty dict.
PutPop(t) ==
    /\ tpc[t] = "put_pop"
    /\ IF cache # <<>>
       THEN /\ cache' = Tail(cache)
            /\ touch_order' = SelectSeq(touch_order,
                                        LAMBDA k : k # Head(cache).key)
            /\ evictions' = evictions + 1
            /\ tpc' = [tpc EXCEPT ![t] = "put_loop"]
            /\ UNCHANGED <<tres, tret, goc_returns>>
       ELSE /\ RaiseKeyError(t)
            /\ UNCHANGED <<cache, touch_order, evictions>>
    /\ UNCHANGED <<hits, misses, timg, ncalls, ocr_calls>>

\* put, lines 137-141, and get_or_compute, line 160.
PutStore(t) ==
    /\ tpc[t] = "put_store"
    /\ cache' = SetItem(cache, compute_hash(timg[t]), tres[t])
    /\ touch_order' = Touch(touch_order, compute_hash(timg[t]))
    /\ Return(t, tres[t])
    /\ UNCHANGED <<counterVars, timg, ncalls, ocr_calls>>

CacheNext ==
    \/ (\E t \in PoolThreads, image \in Images : GetOrCompute(t, image))
          /\ UNCHANGED notCacheVars
    \/ (\E t \in PoolThreads : GetTest(t)) /\ UNCHANGED notCacheVars
    \/ (\E t \in PoolThreads : GetRead(t)) /\ UNCHANGED notCacheVars
    \/ (\E t \in PoolThreads : GetMove(t)) /\ UNCHANGED notCacheVars
    \/ (\E t \in PoolThreads : OcrCall(t)) /\ UNCHANGED notCacheVars
    \/ (\E t \in PoolThreads : PutTest(t)) /\ UNCHANGED notCacheVars
    \/ (\E t \in PoolThreads : PutMove(t)) /\ UNCHANGED notCacheVars
    \/ (\E t \in PoolThreads : PutLoop(t)) /\ UNCHANGED notCacheVars
    \/ (\E t \in PoolThreads : PutPop(t)) /\ UNCHANGED notCacheVars
    \/ (\E t \in PoolThreads : PutStore(t)) /\ UNCHANGED notCacheVars

-----------------------------------------------------------------------------
(* DeltaEncoder and SemanticBuilder.build *)

\* _summarize(text, max_len=500): the model summarises to a shorter length
\* so that its texts are cut.
summarize_max_len == 8

NL == "\n"

\* The OCR texts given to encode: of one, two, three and six lines, and the
\* empty text of a frame without OCR.
Text_empty == <<>>

Text_x_y == <<"x", NL, "y">>

Text_x_z == <<"x", NL, "z">>

Text_w_x_y == <<"w", NL, "x", NL, "y">>

Text_long_line == <<"l", "o", "n", "g", " ", "l", "i", "n", "e", "s">>

Text_six_lines == <<"a", NL, "b", NL, "c", NL, "d", NL, "e", NL, "f">>

EncoderTexts == {Text_empty, Text_x_y, Text_x_z, Text_w_x_y,
                 Text_long_line, Text_six_lines}

\* text[:n]
Prefix(text, n) == SubSeq(text, 1, IF Len(text) < n THEN Len(text) ELSE n)

\* text.split('\n')
RECURSIVE Split(_)
Split(text) ==
    IF \A i \in 1..Len(text) : text[i] # NL THEN <<text>>
    ELSE LET i == CHOOSE k \in 1..Len(text) :
                     text[k] = NL /\ \A m \in 1..(k - 1) : text[m] # NL
         IN  <<SubSeq(text, 1, i - 1)>> \o Split(SubSeq(text, i + 1, Len(text)))

\* '\n'.join(lines)
RECURSIVE Join(_)
Join(lines) ==
    IF Len(lines) = 0 THEN <<>>
    ELSE IF Len(lines) = 1 THEN lines[1]
    ELSE lines[1] \o <<NL>> \o Join(Tail(lines))

\* f'\n... ({len(lines)} lines total) ...\n'; the number is one character.
LinesTotal(n) ==
    <<NL, ".", ".", ".", " ", "(", n, " ", "l", "i", "n", "e", "s", " ",
      "t", "o", "t", "a", "l", ")", " ", ".", ".", ".", NL>>

\* _summarize without the cut to max_len.
Summarize_uncut(text) ==
    LET lines == Split(text)
    IN  IF Len(lines) <= 5 THEN text
        ELSE Join(SubSeq(lines, 1, 3)) \o LinesTotal(Len(lines))
             \o Join(SubSeq(lines, Len(lines) - 1, Len(lines)))

\* _summarize, lines 257-265
Summarize(text) ==
    LET lines == Split(text)
    IN  IF Len(lines) <= 5 THEN Prefix(text, summarize_max_len)
        ELSE Prefix(Join(SubSeq(lines, 1, 3)) \o LinesTotal(Len(lines))
                    \o Join(SubSeq(lines, Len(lines) - 1, Len(lines))),
                    summarize_max_len)

\* TextDelta; the model keeps content for the initial delta and the type and
\* the line of the others.
InitialDelta(content) ==
    [type |-> "initial", location |-> "full", content |-> content]

LineDelta(type, line) == [type |-> type, location |-> line]

\* get_opcodes() without the 'equal' blocks, as the deltas of lines 213-249:
\* the longest matching block splits the range, and a range without a match
\* is one 'replace', 'delete' or 'insert'.
RECURSIVE LineDeltas(_, _, _, _, _, _)
LineDeltas(a, b, alo, ahi, blo, bhi) ==
    LET gap == IF alo <= ahi /\ blo <= bhi THEN <<LineDelta("modify", alo)>>
               ELSE IF alo <= ahi THEN <<LineDelta("remove", alo)>>
               ELSE IF blo <= bhi THEN <<LineDelta("add", blo)>>
               ELSE <<>>
    IN  IF alo > ahi \/ blo > bhi THEN gap
        ELSE LET m == FindLongestMatch(a, b, alo, ahi, blo, bhi)
             IN  IF m[3] = 0 THEN gap
                 ELSE LineDeltas(a, b, alo, m[1] - 1, blo, m[2] - 1)
                      \o LineDeltas(a, b, m[1] + m[3], ahi, m[2] + m[3], bhi)

\* An encoder that never takes itself for new.
IsFirstEncode_never(text) == FALSE

\* encode, line 197: "if not self.last_text"
IsFirstEncode(text) == text = <<>>

\* What encode(current_text) returns, lines 197-255.
EncodeResult(current_text) ==
    IF IsFirstEncode(last_text)
    THEN <<InitialDelta(Summarize(current_text))>>
    ELSE LET current_lines == Split(current_text)
         IN  LineDeltas(last_lines, current_lines,
                        1, Len(last_lines), 1, Len(current_lines))

\* The last three operations after one more.
KeepLast3(log, x) ==
    IF Len(log) < 3 THEN Append(log, x) ELSE <<log[2], log[3], x>>

EncoderOp(op, text) == [op |-> op, text |-> text]

EncoderInit ==
    /\ last_text = <<>>
    /\ last_lines = <<>>
    /\ deltas = <<>>
    /\ text_deltas = <<>>
    /\ op_log = <<EncoderOp("create", <<>>)>>

\* encode(current_text): both branches end with last_text and last_lines
\* set from current_text.
Encode(current_text) ==
    /\ deltas' = EncodeResult(current_text)
    /\ last_text' = current_text
    /\ last_lines' = Split(current_text)
    /\ op_log' = KeepLast3(op_log, EncoderOp("encode", current_text))
    /\ UNCHANGED text_deltas

\* SemanticBuilder.build(ocr_text, ...): line 360 calls encode and line 372
\* puts its result in the SemanticState.
Build(ocr_text) ==
    /\ deltas' = EncodeResult(ocr_text)
    /\ text_deltas' = deltas'
    /\ last_text' = ocr_text
    /\ last_lines' = Split(ocr_text)
    /\ op_log' = KeepLast3(op_log, EncoderOp("build", ocr_text))

\* reset(), lines 303-306 (SemanticBuilder.reset calls it, line 447).
Reset ==
    /\ last_text' = <<>>
    /\ last_lines' = <<>>
    /\ op_log' = KeepLast3(op_log, EncoderOp("reset", <<>>))
    /\ UNCHANGED <<deltas, text_deltas>>

EncoderNext ==
    \/ (\E t \in EncoderTexts : Encode(t)) /\ UNCHANGED notEncoderVars
    \/ (\E t \in EncoderTexts : Build(t)) /\ UNCHANGED notEncoderVars
    \/ Reset /\ UNCHANGED notEncoderVars

-----------------------------------------------------------------------------
(* ChangeDetector.detect with its FastGate *)

\* ChangeDetector.__init__ defaults: threshold (0.95, in hundredths),
\* min_area, phash_threshold.
default_threshold == 95

min_area == 100

phash_threshold == 5

\* The sensitive threshold the orchestrator switches to (0.85).
sensitive_threshold == 85

\* Number of detect calls the model follows.
MaxFrames == 4

\* The captured frames: their content and their resolution.
Frames == {[px |-> "f1", shape |-> "1x"], [px |-> "f2", shape |-> "1x"],
           [px |-> "f3", shape |-> "2x"]}

NoFrame == [px |-> "none", shape |-> "none"]

NoHash == "none"

\* What the libraries can compute for a frame that differs from the one it
\* is compared with: the Hamming distance of the perceptual hashes, the SSIM
\* score in hundredths, and the areas of the connected components of the
\* diff mask.
PhashDistances == {4, 5}

SsimScores == {80, 90, 95}

RegionAreas == {50, 100}

\* Where a library call of detect can raise: structural_similarity (line 158)
\* or label/regionprops (lines 175-177); "none" when neither does.
Failures == {"none", "ssim", "contour"}

\* imagehash.phash(frame): frames with the same content have the same hash.
phash(frame) == frame.px

\* np.array(frame.convert("L"))
Gray(frame) == frame

NoChangeResult == [ssim_score |-> -1, contours |-> {}, phash_distance |-> -1]

ChangeResult(score, contours, distance) ==
    [ssim_score |-> score, contours |-> contours, phash_distance |-> distance]

DetectorInit ==
    /\ prev_frame = NoFrame
    /\ prev_hash = NoHash
    /\ threshold = default_threshold
    /\ ssim_calls = 0
    /\ ssim_bypassed = 0
    /\ frames_checked = 0
    /\ frames_rejected = 0
    /\ detected = NoChangeResult
    /\ detect_exit = "none"
    /\ key_before = NoFrame
    /\ hash_before = NoHash
    /\ detect_raised = FALSE

\* set_threshold(threshold)
SetThreshold(t) ==
    /\ threshold # t
    /\ threshold' = t
    /\ UNCHANGED <<prev_frame, prev_hash, ssim_calls, ssim_bypassed,
                   frames_checked, frames_rejected, detected, detect_exit,
                   key_before, hash_before, detect_raised>>

\* detect, line 168: "self.prev_frame = gray", before the regions are looked at.
KeyFrameAfterSsim(gray, contours) == gray

\* detect(frame), lines 136-202, with FastGate.check, lines 59-81.
\* distance, score and areas are what the libraries compute for this frame,
\* failure is the library call that raises.  detect has no exception handler,
\* so an exception leaves it at the statement that raised.
Detect(frame, distance, score, areas, failure) ==
    LET gray == Gray(frame)
        first_hash == prev_hash = NoHash
        dist == IF first_hash THEN 64 ELSE distance
        rejected == ~first_hash /\ dist < phash_threshold
        contours == {a \in areas : a >= min_area}
    IN  /\ frames_checked < MaxFrames
        /\ phash(frame) = prev_hash => distance = 0
        /\ gray = prev_frame => score = 100
        /\ key_before' = prev_frame
        /\ hash_before' = prev_hash
        /\ frames_checked' = frames_checked + 1
        /\ IF rejected
           THEN \* FastGate.check, lines 74-77, and detect, lines 140-142
                /\ frames_rejected' = frames_rejected + 1
                /\ ssim_bypassed' = ssim_bypassed + 1
                /\ detected' = NoChangeResult
                /\ detect_exit' = "fast_gate"
                /\ detect_raised' = FALSE
                /\ UNCHANGED <<prev_frame, prev_hash, ssim_calls>>
           ELSE IF prev_frame = NoFrame
           THEN \* lines 147-149
                /\ prev_hash' = phash(frame)
                /\ prev_frame' = gray
                /\ detected' = NoChangeResult
                /\ detect_exit' = "first"
                /\ detect_raised' = FALSE
                /\ UNCHANGED <<frames_rejected, ssim_bypassed, ssim_calls>>
           ELSE IF gray.shape # prev_frame.shape
           THEN \* lines 151-155
                /\ prev_frame' = gray
                /\ prev_hash' = NoHash
                /\ detected' = NoChangeResult
                /\ detect_exit' = "resolution"
                /\ detect_raised' = FALSE
                /\ UNCHANGED <<frames_rejected, ssim_bypassed, ssim_calls>>
           ELSE IF failure = "ssim"
           THEN \* lines 157-160: structural_similarity raises, after
                \* FastGate.check stored the new hash (line 80)
                /\ prev_hash' = phash(frame)
                /\ ssim_calls' = ssim_calls + 1
                /\ detected' = NoChangeResult
                /\ detect_exit' = "ssim_error"
                /\ detect_raised' = TRUE
                /\ UNCHANGED <<prev_frame, frames_rejected, ssim_bypassed>>
           ELSE IF score >= threshold
           THEN \* lines 157-163
                /\ prev_hash' = phash(frame)
                /\ ssim_calls' = ssim_calls + 1
                /\ detected' = NoChangeResult
                /\ detect_exit' = "ssim"
                /\ detect_raised' = FALSE
                /\ UNCHANGED <<prev_frame, frames_rejected, ssim_bypassed>>
           ELSE IF failure = "contour"
           THEN \* lines 168-177: label or regionprops raises, after the key
                \* frame was replaced (line 168)
                /\ prev_hash' = phash(frame)
                /\ ssim_calls' = ssim_calls + 1
                /\ prev_frame' = KeyFrameAfterSsim(gray, contours)
                /\ detected' = NoChangeResult
                /\ detect_exit' = "contour_error"
                /\ detect_raised' = TRUE
                /\ UNCHANGED <<frames_rejected, ssim_bypassed>>
           ELSE \* lines 168-202
                /\ prev_hash' = phash(frame)
                /\ ssim_calls' = ssim_calls + 1
                /\ prev_frame' = KeyFrameAfterSsim(gray, contours)
                /\ detected' = IF contours = {} THEN NoChangeResult
                               ELSE ChangeResult(score, contours, dist)
                /\ detect_exit' = IF contours = {} THEN "no_contours"
                                  ELSE "change"
                /\ detect_raised' = FALSE
                /\ UNCHANGED <<frames_rejected, ssim_bypassed>>
        /\ UNCHANGED threshold

DetectorNext ==
    \/ (\E t \in {default_threshold, sensitive_threshold} : SetThreshold(t))
          /\ UNCHANGED notDetectorVars
    \/ (\E frame \in Frames, distance \in PhashDistances \cup {0},
           score \in SsimScores \cup {100}, areas \in SUBSET RegionAreas,
           failure \in Failures :
             Detect(frame, distance, score, areas, failure))
          /\ UNCHANGED notDetectorVars

-----------------------------------------------------------------------------
(* The orchestrator loop of sense_client and the privacy filter *)

Chars_private_open == <<"<", "p", "r", "i", "v", "a", "t", "e", ">">>

Chars_private_close == <<"<", "/", "p", "r", "i", "v", "a", "t", "e", ">">>

Chars_redacted_password == <<"[", "R", "E", "D", "A", "C", "T", "E", "D", ":", "p", "a", "s", "s", "w", "o", "r", "d", "]">>

\* The keywords of the password pattern, in the order the regex tries them.
PasswordKeywords == <<<<"p", "a", "s", "s", "w", "o", "r", "d">>, <<"p", "a", "s", "s", "w", "d">>, <<"p", "w", "d">>>>

\* What OCR can read off the screen: nothing, plain text, a password
\* assignment, and a note with a <private> block.
Ocr_plain == <<"m", "e", "m", "o", " ", "a", "b", "c", "d">>

Ocr_password == <<"p", "w", "d", "=", "h", "u", "n", "t", "e", "r">>

Ocr_private == <<"<", "p", "r", "i", "v", "a", "t", "e", ">", "k", "<", "/", "p", "r", "i", "v", "a", "t", "e", ">", " ", "m", "e", "m", "o">>

OcrOutputs == {<<>>, Ocr_plain, Ocr_password, Ocr_private}

\* pat occurs in s at position i.
MatchesAt(s, i, pat) ==
    /\ i + Len(pat) - 1 <= Len(s)
    /\ \A k \in 1..Len(pat) : s[i + k - 1] = pat[k]

\* The least position >= i where pat occurs in s, or 0.
FindFrom(s, i, pat) ==
    LET found == {j \in i..Len(s) : MatchesAt(s, j, pat)}
    IN  IF found = {} THEN 0 ELSE CHOOSE j \in found : \A k \in found : j <= k

\* str.strip()
Strip(s) ==
    LET solid == {i \in 1..Len(s) : ~IsSpace(s[i])}
    IN  IF solid = {} THEN <<>>
        ELSE LET lo == CHOOSE i \in solid : \A k \in solid : i <= k
                 hi == CHOOSE i \in solid : \A k \in solid : i >= k
             IN  SubSeq(s, lo, hi)

\* _PRIVATE_TAG.sub("", text): every <private>...</private> block, the
\* shortest one from each opening tag, is removed.
RECURSIVE RemovePrivateBlocks(_)
RemovePrivateBlocks(s) ==
    LET open == FindFrom(s, 1, Chars_private_open)
        close == IF open = 0 THEN 0
                 ELSE FindFrom(s, open + Len(Chars_private_open),
                               Chars_private_close)
    IN  IF close = 0 THEN s
        ELSE SubSeq(s, 1, open - 1)
             \o RemovePrivateBlocks(
                    SubSeq(s, close + Len(Chars_private_close), Len(s)))

\* strip_private(text)
strip_private(text) == Strip(RemovePrivateBlocks(text))

\* The position after the run of whitespace of s that starts at i.
RECURSIVE SkipSpace(_, _)
SkipSpace(s, i) ==
    IF i <= Len(s) /\ IsSpace(s[i]) THEN SkipSpace(s, i + 1) ELSE i

\* The position after the run of non-whitespace of s that starts at i.
RECURSIVE SkipSolid(_, _)
SkipSolid(s, i) ==
    IF i <= Len(s) /\ ~IsSpace(s[i]) THEN SkipSolid(s, i + 1) ELSE i

\* Where a match of (?:password|passwd|pwd)\s*[:=]\s*\S+ that starts at i
\* ends (the position after it), or 0 when there is none.
PasswordMatchEnd(s, i) ==
    LET fits == {k \in 1..Len(PasswordKeywords) :
                    MatchesAt(s, i, PasswordKeywords[k])}
    IN  IF fits = {} THEN 0
        ELSE LET kw == PasswordKeywords[CHOOSE k \in fits :
                                            \A m \in fits : k <= m]
                 sep == SkipSpace(s, i + Len(kw))
                 val == IF sep <= Len(s) /\ s[sep] \in {":", "="}
                        THEN SkipSpace(s, sep + 1) ELSE 0
             IN  IF val = 0 \/ SkipSolid(s, val) = val THEN 0
                 ELSE SkipSolid(s, val)

\* The password pattern's sub over s from position i on.
RECURSIVE RedactPasswordsFrom(_, _)
RedactPasswordsFrom(s, i) ==
    IF i > Len(s) THEN <<>>
    ELSE IF PasswordMatchEnd(s, i) # 0
    THEN Chars_redacted_password
         \o RedactPasswordsFrom(s, PasswordMatchEnd(s, i))
    ELSE <<s[i]>> \o RedactPasswordsFrom(s, i + 1)

\* redact_sensitive(text).  The card, API key, bearer and AWS patterns need
\* sixteen or more digits or key characters in a row; no text of OcrOutputs
\* has them, so only the password pattern can match.
redact_sensitive(text) == RedactPasswordsFrom(text, 1)

\* apply_privacy(text)
apply_privacy(text) == redact_sensitive(strip_private(text))

\* How far the clock runs in the model of the loop (ms after Epoch).
LoopHorizon == 3000

LoopInit ==
    /\ ocr_raw = <<>>
    /\ builder_text = <<>>
    /\ gate_text = <<>>
    /\ handed = NoEvent

\* One iteration of the capture loop that reaches OCR (lines 176-277): the
\* OCR result goes to context_builder.add_event and to gate.classify as it
\* came from the OCR backend; an event classify returns is given to
\* sender.send.  The iteration is abandoned at line 181 when nothing changed.
LoopIteration ==
    \E dt \in TimeSteps, change \in SsimPool \cup {NoChange},
       raw \in OcrOutputs, app_changed \in BOOLEAN, window_changed \in BOOLEAN :
        /\ now + dt <= Epoch + LoopHorizon
        /\ change # NoChange \/ app_changed \/ window_changed
        /\ ocr_raw' = raw
        /\ builder_text' = raw
        /\ gate_text' = raw
        /\ Classify(now + dt, change, raw, app_changed, window_changed)
        /\ handed' = returned'

LoopNext == LoopIteration /\ UNCHANGED notLoopVars

-----------------------------------------------------------------------------
(* The wearable Sender (send_frame, send_audio) and the circuit breaker of   *)
(* OpenClawGateway.  The code keeps readings of time.monotonic() and timer   *)
(* handles; the model keeps each of them relative to the present: a failure  *)
(* by its age, a timer by the time left.  Times are in seconds.              *)

\* OpenClawGateway.__init__: the circuit breaker's configuration.
CIRCUIT_THRESHOLD == 5

CIRCUIT_WINDOW_S == 120

InitialCircuitResetS == 300

MAX_CIRCUIT_RESET_S == 1800

\* loop.call_later(60.0, on_timeout)
RpcTimeoutS == 60

\* How far the skipped counter and the trips of the breaker are followed.
MaxSkipped == 1

MaxTrips == 5

\* The clock is read at these distances (s).
WearTimeSteps == {30, 60}

\* The camera task calls send_frame, the audio task calls send_audio.
Callers == {"frame", "audio"}

NoTimer == -1

Min(a, b) == IF a <= b THEN a ELSE b

\* A timer that never fires.
TimerDue_never(t) == FALSE

\* loop.call_later: the callback runs when no time is left on the timer.
TimerDue(t) == t = 0

InFlightGuard_off(flag) == FALSE

\* "if self._in_flight:" of send_frame and send_audio
InFlightGuard(flag) == flag

CircuitRefuses_never(open) == FALSE

\* "if self._circuit_open:" of send_agent_rpc
CircuitRefuses(open) == open

NextResetS_uncapped(r) == r * 2

\* next_delay of _on_rpc_failure
NextResetS(r) == Min(r * 2, MAX_CIRCUIT_RESET_S)

\* _circuit_reset_s after a successful RPC: "self._circuit_reset_s = 300.0"
SuccessResetS(r) == InitialCircuitResetS

\* [t for t in self._recent_failures if t > cutoff], cutoff = now - window:
\* the entries younger than the window.
WithinWindow(failures) ==
    SelectSeq(failures, LAMBDA age : age < CIRCUIT_WINDOW_S)

TripDue_above(failures, open) == Len(failures) > CIRCUIT_THRESHOLD /\ ~open

\* "len(self._recent_failures) >= self._CIRCUIT_THRESHOLD and not
\* self._circuit_open"
TripDue(failures, open) == Len(failures) >= CIRCUIT_THRESHOLD /\ ~open

\* The ages of a list of readings dt seconds later; an entry that has left the
\* window is as old as the window for every test the code makes.
Aged(failures, dt) ==
    [i \in 1..Len(failures) |-> Min(failures[i] + dt, CIRCUIT_WINDOW_S)]

\* The failures of a history that happened less than a window ago.
InPrecedingWindow(log) ==
    SelectSeq(log, LAMBDA age : age < CIRCUIT_WINDOW_S)

\* A step that is not a call of send_frame/send_audio.
Step(kind) ==
    [kind |-> kind, caller |-> "none", result |-> "none", transmitted |-> FALSE]

\* A call by c that returned result ("False", or "pending" when the caller is
\* suspended in send_agent_rpc).
CallStep(c, result, transmitted) ==
    [kind |-> "call", caller |-> c, result |-> result,
     transmitted |-> transmitted]

WearableInit ==
    /\ in_flight = FALSE
    /\ sends_skipped = 0
    /\ cpc = [c \in Callers |-> "idle"]
    /\ is_connected = FALSE
    /\ pending = {}
    /\ rpc_timer = [c \in Callers |-> NoTimer]
    /\ recent_failures = <<>>
    /\ circuit_open = FALSE
    /\ circuit_reset_s = InitialCircuitResetS
    /\ circuit_reset_timer = NoTimer
    /\ last_step = Step("init")
    /\ failure_log = <<>>
    /\ trips = 0
    /\ open_for = 0
    /\ open_period = 0
    /\ refused_open = FALSE

breakerVars == <<recent_failures, circuit_open, circuit_reset_s,
                 circuit_reset_timer>>

breakerHistVars == <<failure_log, trips, open_for, open_period, refused_open>>

\* _on_rpc_failure()
OnRpcFailure ==
    LET kept == WithinWindow(Append(recent_failures, 0))
        trip == TripDue(kept, circuit_open)
    IN  /\ recent_failures' = kept
        /\ circuit_open' = (circuit_open \/ trip)
        /\ circuit_reset_timer' = IF trip THEN circuit_reset_s
                                  ELSE circuit_reset_timer
        /\ circuit_reset_s' = IF trip THEN NextResetS(circuit_reset_s)
                              ELSE circuit_reset_s
        /\ failure_log' = Append(failure_log, 0)
        /\ trips' = IF trip THEN Min(trips + 1, MaxTrips) ELSE trips
        /\ open_for' = IF trip THEN 0 ELSE open_for
        /\ open_period' = IF trip THEN circuit_reset_s ELSE open_period
        /\ refused_open' = IF trip THEN FALSE ELSE refused_open

\* _maybe_log_stats(): zeroes the counters when 60 s have passed since it did
\* so last; the model does not follow _last_stats_ts and lets either happen.
\* _sends_ok, _sends_failed and _latencies are read by nothing else and are
\* left out.
MaybeLogStats ==
    \E due \in BOOLEAN : sends_skipped' = IF due THEN 0 ELSE sends_skipped

\* send_frame(frame) or send_audio(chunk) called by task c, up to its return
\* or to the await of the response in send_agent_rpc (gateway.py line 249).
SendCall(c) ==
    /\ cpc[c] = "idle"
    /\ IF InFlightGuard(in_flight) \/ ~is_connected
       THEN \* lines 47-55, 104-110
            /\ sends_skipped < MaxSkipped
            /\ sends_skipped' = sends_skipped + 1
            /\ last_step' = CallStep(c, "False", FALSE)
            /\ UNCHANGED <<in_flight, cpc, pending, rpc_timer, refused_open>>
       ELSE IF CircuitRefuses(circuit_open)
       THEN \* in flight, send_agent_rpc returns None (gateway.py lines
            \* 209-211), the finally clause
            /\ last_step' = CallStep(c, "False", FALSE)
            /\ refused_open' = TRUE
            /\ in_flight' = FALSE
            /\ MaybeLogStats
            /\ UNCHANGED <<cpc, pending, rpc_timer>>
       ELSE \* gateway.py lines 217-249: the request is written
            /\ in_flight' = TRUE
            /\ pending' = pending \cup {c}
            /\ rpc_timer' = [rpc_timer EXCEPT ![c] = RpcTimeoutS]
            /\ cpc' = [cpc EXCEPT ![c] = "awaiting"]
            /\ last_step' = CallStep(c, "pending", TRUE)
            /\ UNCHANGED <<sends_skipped, refused_open>>
    /\ UNCHANGED <<is_connected, breakerVars, failure_log, trips, open_for,
                   open_period>>

\* _handle_message: the final response of c's RPC arrives, ok or not
\* (gateway.py lines 186-202).
Response(c, ok) ==
    /\ c \in pending
    /\ is_connected
    /\ pending' = pending \ {c}
    /\ rpc_timer' = [rpc_timer EXCEPT ![c] = NoTimer]
    /\ cpc' = [cpc EXCEPT ![c] = IF ok THEN "got_ok" ELSE "got_error"]
    /\ last_step' = Step("response")
    /\ UNCHANGED <<in_flight, sends_skipped, is_connected, breakerVars,
                   breakerHistVars>>

ResponseOk(c) == Response(c, TRUE)

ResponseError(c) == Response(c, FALSE)

\* on_timeout of c's RPC, 60 s after it was sent (gateway.py lines 223-228).
RpcTimeout(c) ==
    /\ c \in pending
    /\ TimerDue(rpc_timer[c])
    /\ pending' = pending \ {c}
    /\ rpc_timer' = [rpc_timer EXCEPT ![c] = NoTimer]
    /\ OnRpcFailure
    /\ cpc' = [cpc EXCEPT ![c] = "got_timeout"]
    /\ last_step' = Step("failure")
    /\ UNCHANGED <<in_flight, sends_skipped, is_connected>>

\* _on_disconnect(): every pending RPC is rejected with ConnectionError.
Disconnect ==
    /\ is_connected
    /\ is_connected' = FALSE
    /\ cpc' = [c \in Callers |->
                  IF c \in pending THEN "got_disconnect" ELSE cpc[c]]
    /\ pending' = {}
    /\ rpc_timer' = [c \in Callers |-> NoTimer]
    /\ last_step' = Step("disconnect")
    /\ UNCHANGED <<in_flight, sends_skipped, breakerVars, breakerHistVars>>

\* _connect_and_listen and the connect response: authenticated.  run looks at
\* the breaker only before it starts to connect (lines 90-93).
Connect ==
    /\ ~is_connected
    /\ is_connected' = TRUE
    /\ last_step' = Step("connect")
    /\ UNCHANGED <<in_flight, sends_skipped, cpc, pending, rpc_timer,
                   breakerVars, breakerHistVars>>

\* The task of c runs again after its future was resolved: the rest of
\* send_agent_rpc (lines 250-275) and of send_frame/send_audio.
Resume(c) ==
    /\ cpc[c] \in {"got_ok", "got_error", "got_timeout", "got_disconnect"}
    /\ IF cpc[c] = "got_ok"
       THEN /\ circuit_reset_s' = SuccessResetS(circuit_reset_s)
            /\ trips' = 0
            /\ last_step' = Step("success")
            /\ UNCHANGED <<recent_failures, circuit_open, circuit_reset_timer,
                           failure_log, open_for, open_period, refused_open>>
       ELSE IF cpc[c] = "got_error"
       THEN /\ OnRpcFailure
            /\ last_step' = Step("failure")
       ELSE /\ last_step' = Step("resume")
            /\ UNCHANGED <<breakerVars, breakerHistVars>>
    /\ in_flight' = FALSE
    /\ MaybeLogStats
    /\ cpc' = [cpc EXCEPT ![c] = "idle"]
    /\ UNCHANGED <<is_connected, pending, rpc_timer>>

\* reset_circuit(), run by the timer _on_rpc_failure set.
ResetCircuit ==
    /\ circuit_reset_timer = 0
    /\ circuit_open' = FALSE
    /\ recent_failures' = <<>>
    /\ circuit_reset_timer' = NoTimer
    /\ last_step' = Step("reset")
    /\ UNCHANGED <<in_flight, sends_skipped, cpc, is_connected, pending,
                   rpc_timer, circuit_reset_s, breakerHistVars>>

\* dt seconds pass, at most up to the next timer that is due; a task whose
\* future is resolved runs before the clock is read again.
WearTick(dt) ==
    /\ \A c \in Callers : cpc[c] \in {"idle", "awaiting"}
    /\ \A c \in pending : dt <= rpc_timer[c]
    /\ circuit_reset_timer # NoTimer => dt <= circuit_reset_timer
    /\ rpc_timer' = [c \in Callers |->
                        IF c \in pending THEN rpc_timer[c] - dt ELSE NoTimer]
    /\ circuit_reset_timer' = IF circuit_reset_timer = NoTimer THEN NoTimer
                              ELSE circuit_reset_timer - dt
    /\ recent_failures' = Aged(recent_failures, dt)
    /\ failure_log' = InPrecedingWindow(Aged(failure_log, dt))
    /\ open_for' = IF circuit_open THEN open_for + dt ELSE open_for
    /\ last_step' = Step("tick")
    /\ UNCHANGED <<in_flight, sends_skipped, cpc, is_connected, pending,
                   circuit_open, circuit_reset_s, trips, open_period,
                   refused_open>>

WearableNext ==
    \/ (\E c \in Callers : SendCall(c)) /\ UNCHANGED notWearableVars
    \/ (\E c \in Callers : ResponseOk(c)) /\ UNCHANGED notWearableVars
    \/ (\E c \in Callers : ResponseError(c)) /\ UNCHANGED notWearableVars
    \/ (\E c \in Callers : RpcTimeout(c)) /\ UNCHANGED notWearableVars
    \/ Disconnect /\ UNCHANGED notWearableVars
    \/ Connect /\ UNCHANGED notWearableVars
    \/ (\E c \in Callers : Resume(c)) /\ UNCHANGED notWearableVars
    \/ ResetCircuit /\ UNCHANGED notWearableVars
    \/ (\E dt \in WearTimeSteps : WearTick(dt)) /\ UNCHANGED notWearableVars

-----------------------------------------------------------------------------
(* The adaptive SSIM threshold of the orchestrator loop, __main__.py:154-176 *)

\* ssim_stable_threshold, line 125: config["detection"]["ssimThreshold"], the
\* value the detector is constructed with (line 78).
ssim_stable_threshold == default_threshold

\* ssim_sensitive_threshold, line 126
ssim_sensitive_threshold == sensitive_threshold

\* Line 171: the threshold is restored more than 10.0 s after the app change.
AdaptiveWindowS == 10

\* time.time() when the loop starts, in seconds: far more than
\* AdaptiveWindowS after the 0.0 that last_app_change_time starts with.
StartSec == 100

\* How long the model follows the loop, in seconds.
FrameHorizon == 22

\* The time from one iteration to the next.
FrameSteps == {4, 6, 11}

\* A loop that never restores the stable threshold.
RestoreDue_never(elapsed) == FALSE

\* Line 171: "now_sec - last_app_change_time > 10.0"
RestoreDue(elapsed) == elapsed > AdaptiveWindowS

AdaptiveInit ==
    /\ now_sec = StartSec
    /\ last_app_change_time = 0
    /\ frame_app_changed = FALSE
    /\ loop_pc = "top"

detectorRestVars == <<prev_frame, prev_hash, ssim_calls, ssim_bypassed,
                      frames_checked, frames_rejected, detected, detect_exit,
                      key_before, hash_before, detect_raised>>

\* Lines 154-158: the control file says paused; the loop sleeps one second
\* and takes the next frame.
PausedFrame ==
    /\ loop_pc = "top"
    /\ now_sec + 1 <= StartSec + FrameHorizon
    /\ now_sec' = now_sec + 1
    /\ UNCHANGED <<last_app_change_time, frame_app_changed, loop_pc>>
    /\ UNCHANGED <<detectorVars, encoderVars>>

\* Lines 160-172 of an iteration that is not paused: the app detector
\* reports app_changed, and the threshold of the detector is adapted.
\* semantic_builder.reset() resets the delta encoder (semantic.py:447).
AdaptiveThreshold(dt, app_changed) ==
    /\ loop_pc = "top"
    /\ now_sec + dt <= StartSec + FrameHorizon
    /\ now_sec' = now_sec + dt
    /\ frame_app_changed' = app_changed
    /\ loop_pc' = "detect"
    /\ IF app_changed
       THEN /\ last_app_change_time' = now_sec'
            /\ threshold' = ssim_sensitive_threshold
            /\ Reset
       ELSE /\ threshold' =
                 IF RestoreDue(now_sec' - last_app_change_time)
                    /\ threshold # ssim_stable_threshold
                 THEN ssim_stable_threshold
                 ELSE threshold
            /\ UNCHANGED <<last_app_change_time, encoderVars>>
    /\ UNCHANGED detectorRestVars

\* Line 176: detector.detect(frame), with the threshold as adapted.  The
\* call is not in a try block, so the loop goes on only when detect returns.
FrameDetect(frame, distance, score, areas, failure) ==
    /\ loop_pc = "detect"
    /\ Detect(frame, distance, score, areas, failure)
    /\ loop_pc' = "top"
    /\ UNCHANGED <<now_sec, last_app_change_time, frame_app_changed>>
    /\ UNCHANGED encoderVars

notAdaptiveVars == <<gateVars, senderVars, cacheVars, loopVars, wearableVars,
    classifierVars,
    trackerVars,
    contextVars,
    raceVars,
    gatewayVars,
    orphanVars>>

AdaptiveNext ==
    \/ PausedFrame /\ UNCHANGED notAdaptiveVars
    \/ (\E dt \in FrameSteps, app_changed \in BOOLEAN :
           AdaptiveThreshold(dt, app_changed)) /\ UNCHANGED notAdaptiveVars
    \/ (\E frame \in Frames, distance \in PhashDistances \cup {0},
           score \in SsimScores \cup {100}, areas \in {{50}, {100}} :
             FrameDetect(frame, distance, score, areas, "none"))
          /\ UNCHANGED notAdaptiveVars

-----------------------------------------------------------------------------
(* ActivityClassifier.classify, semantic.py:111-165 *)

ActivityTypes == {"typing", "scrolling", "navigation", "reading", "error",
                  "loading", "idle", "unknown"}

\* Words of ERROR_PATTERNS and LOADING_PATTERNS (lines 81-91) that occur in
\* the texts of the model; the texts are in lower case.
Word_error == <<"e", "r", "r", "o", "r">>

Word_loading == <<"l", "o", "a", "d", "i", "n", "g">>

ERROR_PATTERNS == {Word_error}

LOADING_PATTERNS == {Word_loading}

\* OCR texts: without an indicator, with the word error, with the word
\* loading, and with "error" inside a longer word.
Ocr_error == <<"a", " ", "e", "r", "r", "o", "r">>

Ocr_loading == <<"l", "o", "a", "d", "i", "n", "g", " ", "x">>

Ocr_terror == <<"t", "e", "r", "r", "o", "r">>

ClassifierTexts == {<<>>, Ocr_error, Ocr_loading, Ocr_terror}

\* re.search(r'\bword\b', text): the word, with no word character next to it.
ContainsWord(text, word) ==
    \E i \in 1..Len(text) :
        /\ MatchesAt(text, i, word)
        /\ i > 1 => ~IsAlnum(text[i - 1])
        /\ i + Len(word) <= Len(text) => ~IsAlnum(text[i + Len(word)])

\* _detect_error_content, _detect_loading_content
detect_error_content(ocr_text) ==
    \E w \in ERROR_PATTERNS : ContainsWord(ocr_text, w)

detect_loading_content(ocr_text) ==
    \E w \in LOADING_PATTERNS : ContainsWord(ocr_text, w)

\* ActivitySignals; change_rate is in hundredths of a change per second.
ChangeRates == {5, 30, 300}

ChangeSizes == {50, 100}

VerticalMotions == {0, 51}

Durations == {5, 6, 31}

SignalsPool ==
    [change_rate : ChangeRates, change_size : ChangeSizes,
     vertical_motion : VerticalMotions, navigated : BOOLEAN,
     duration_s : Durations, ocr_contains_error : BOOLEAN,
     ocr_contains_loading : BOOLEAN]

NoSignals ==
    [change_rate |-> 0, change_size |-> 0, vertical_motion |-> 0,
     navigated |-> FALSE, duration_s |-> 0, ocr_contains_error |-> FALSE,
     ocr_contains_loading |-> FALSE]

\* Number of classify calls the model follows, one second apart.
MaxClassifyClock == 2

\* The first rung of the ladder that matches (lines 123-156), or "default".
Ladder(signals, ocr_text) ==
    IF signals.navigated THEN "navigation"
    ELSE IF signals.ocr_contains_error \/ detect_error_content(ocr_text)
    THEN "error"
    ELSE IF signals.ocr_contains_loading \/ detect_loading_content(ocr_text)
    THEN "loading"
    ELSE IF signals.change_rate > 200 /\ signals.change_size < 100
    THEN "typing"
    ELSE IF signals.vertical_motion > 50 THEN "scrolling"
    ELSE IF signals.change_rate < 50 /\ signals.duration_s > 5 THEN "reading"
    ELSE IF signals.change_rate < 10 /\ signals.duration_s > 30 THEN "idle"
    ELSE "default"

ClassifierInit ==
    /\ last_activity = "unknown"
    /\ activity_start_ts = 0
    /\ cls_now = 0
    /\ activity = "unknown"
    /\ signals_log = [called |-> FALSE, signals |-> NoSignals, ocr_text |-> <<>>]

\* classify(signals, ocr_text), with _update_state (lines 160-164); navigated
\* stands for "app_changed or window_changed or url_changed".
ActivityClassify(signals, ocr_text) ==
    LET rung == Ladder(signals, ocr_text)
    IN  /\ cls_now + 1 <= MaxClassifyClock
        /\ cls_now' = cls_now + 1
        /\ signals_log' = [called |-> TRUE, signals |-> signals,
                           ocr_text |-> ocr_text]
        /\ IF rung = "default"
           THEN /\ activity' = last_activity
                /\ UNCHANGED <<last_activity, activity_start_ts>>
           ELSE /\ activity' = rung
                /\ last_activity' = rung
                /\ activity_start_ts' =
                      IF rung # last_activity THEN cls_now'
                      ELSE activity_start_ts

ClassifierNext ==
    (\E signals \in SignalsPool, ocr_text \in ClassifierTexts :
        ActivityClassify(signals, ocr_text))
      /\ UNCHANGED notClassifierVars

-----------------------------------------------------------------------------
(* RegionTracker, region_tracker.py.  A cell keeps the reading of           *)
(* time.time() of its last change; the model keeps the time since then, as  *)
(* of the latest analysis, in seconds.  Stability scores are in tenths.     *)

\* RegionTracker(grid_size=16, stability_threshold_s=30.0), __main__.py:89-92,
\* and the default stability_min_samples.
stability_threshold_s == 30

stability_min_samples == 5

\* The cells of the grid the model follows (the code has 16 x 16).
GridCells == {0, 1}

\* Number of analyze calls the model follows.  Up to seven additions of 0.1
\* and subtractions of 0.2 from 0.0 the doubles of the code compare with 0.5
\* as their tenths do: 0.1 added five times is exactly 0.5.
MaxAnalyses == 12

\* The time from one analysis to the next.
AnalysisSteps == {10, 31}

\* Every time since the last change above the threshold counts the same.
SinceMax == stability_threshold_s + 1

\* The hashes _compute_region_hash can give for a cell.
RegionHashes == {"h1", "h2"}

\* The steps of the score, lines 147 and 168, the bounds of the score, and
\* the score that separates stable from dynamic (0.5).
ScoreDown == 2

ScoreUp == 1

ScoreMax == 10

ScoreHalf == 5

\* seen_unchanged is history: the analyses that found the cell unchanged
\* since it was registered, counted up to stability_min_samples.
NoStats ==
    [registered |-> FALSE, last_hash |-> "none", since_change |-> 0,
     change_count |-> 0, stability_score |-> 0, seen_unchanged |-> 0]

\* RegionStats(last_hash=current_hash, last_change_ts=now), line 134
RegionStats(current_hash) ==
    [registered |-> TRUE, last_hash |-> current_hash, since_change |-> 0,
     change_count |-> 0, stability_score |-> 0, seen_unchanged |-> 0]

ChangedRegion(index, is_stable) == [index |-> index, is_stable |-> is_stable]

\* analyze, line 150: "is_stable = stats.stability_score > 0.5"
IsStable(score) == score > ScoreHalf

\* analyze, lines 165-167: the conditions under which the score of an
\* unchanged cell rises.
ScoreRises(time_since_change, change_count) ==
    /\ time_since_change > stability_threshold_s
    /\ change_count >= stability_min_samples

\* One pass of the loop body of analyze for a cell, lines 121-168.
AnalyzedCell(stats, current_hash, dt) ==
    IF ~stats.registered THEN RegionStats(current_hash)
    ELSE IF stats.last_hash # current_hash
    THEN [stats EXCEPT !.last_hash = current_hash,
                       !.since_change = 0,
                       !.change_count = @ + 1,
                       !.stability_score =
                           IF @ - ScoreDown < 0 THEN 0 ELSE @ - ScoreDown]
    ELSE LET time_since_change ==
                 IF stats.since_change + dt > SinceMax THEN SinceMax
                 ELSE stats.since_change + dt
         IN  [stats EXCEPT
                 !.since_change = time_since_change,
                 !.seen_unchanged =
                     IF @ < stability_min_samples THEN @ + 1 ELSE @,
                 !.stability_score =
                     IF ScoreRises(time_since_change, stats.change_count)
                     THEN (IF @ + ScoreUp > ScoreMax THEN ScoreMax
                           ELSE @ + ScoreUp)
                     ELSE @]

\* The cells whose hash changed in this analysis.
CellChanged(c, hashes) ==
    grid[c].registered /\ grid[c].last_hash # hashes[c]

\* get_stable_regions, lines 179-184, and get_dynamic_regions, lines 172-177
get_stable_regions ==
    {c \in GridCells : grid[c].registered /\ grid[c].stability_score >= ScoreHalf}

get_dynamic_regions ==
    {c \in GridCells : grid[c].registered /\ grid[c].stability_score < ScoreHalf}

\* get_stats, lines 248-261: the counts
get_stats ==
    [total_regions |-> Cardinality({c \in GridCells : grid[c].registered}),
     stable_regions |-> Cardinality(get_stable_regions),
     dynamic_regions |-> Cardinality(get_dynamic_regions)]

TrackerInit ==
    /\ grid = [c \in GridCells |-> NoStats]
    /\ total_analyses = 0
    /\ stable_regions_skipped = 0
    /\ changed_regions = {}

\* analyze(frame, skip_stable), lines 98-170: hashes[c] is the hash of the
\* cell c of the frame, dt the time since the analysis before.
Analyze(hashes, dt, skip_stable) ==
    LET changed == {c \in GridCells : CellChanged(c, hashes)}
        after == [c \in GridCells |-> AnalyzedCell(grid[c], hashes[c], dt)]
        skipped == {c \in changed :
                      IsStable(after[c].stability_score) /\ skip_stable}
    IN  /\ total_analyses < MaxAnalyses
        /\ total_analyses' = total_analyses + 1
        /\ grid' = after
        /\ stable_regions_skipped' = stable_regions_skipped + Cardinality(skipped)
        /\ changed_regions' =
              {ChangedRegion(c, IsStable(after[c].stability_score)) :
                  c \in changed \ skipped}

\* reset(), lines 263-267
TrackerReset ==
    /\ grid' = [c \in GridCells |-> NoStats]
    /\ UNCHANGED <<total_analyses, stable_regions_skipped, changed_regions>>

TrackerNext ==
    \/ (\E hashes \in [GridCells -> RegionHashes], dt \in AnalysisSteps,
           skip_stable \in BOOLEAN : Analyze(hashes, dt, skip_stable))
          /\ UNCHANGED notTrackerVars
    \/ TrackerReset /\ UNCHANGED notTrackerVars

-----------------------------------------------------------------------------
(* ContextBuilder.add_event and query, context_builder.py:56-123 *)

\* ContextBuilder(max_history=30), __main__.py:115; the model keeps a
\* shorter history.
max_history == 3

\* Number of add_event calls the model follows.
MaxSnapshots == 4

\* The largest limit of a query in the model.
MaxLimit == 3

\* since_ts = None
NoSince == -1

SinceValues == {NoSince, 0, 2, 4}

Limits == 0..MaxLimit

ContextTexts == {Text_x_y, Text_x_z}

ContextSnapshot(ts, id) == [ts |-> ts, id |-> id]

ContextQuery(since_ts, limit) == [since_ts |-> since_ts, limit |-> limit]

\* deque(maxlen=max_history).append
HistoryAppend(h, snapshot) ==
    IF Len(h) < max_history THEN Append(h, snapshot)
    ELSE Append(Tail(h), snapshot)

\* Lines 111-114: "if params.since_ts:" is false for None and for 0.0.
FilterBySince(h, since_ts) ==
    IF since_ts = NoSince \/ since_ts = 0 THEN h
    ELSE SelectSeq(h, LAMBDA s : s.ts >= since_ts)

\* Line 117: snapshots[-params.limit:]; for a limit of 0 the slice [-0:] is
\* the whole list.
LastSlice(snapshots, limit) ==
    IF limit = 0 \/ limit >= Len(snapshots) THEN snapshots
    ELSE SubSeq(snapshots, Len(snapshots) - limit + 1, Len(snapshots))

\* The ids of result["events"] of _build_full, lines 132-149.
EventIds_of(snapshots) == [i \in 1..Len(snapshots) |-> snapshots[i].id]

ContextInit ==
    /\ history = <<>>
    /\ ctx_next_id = 1
    /\ total_snapshots = 0
    /\ ctx_now = 0
    /\ query_params = ContextQuery(NoSince, 0)
    /\ query_events = <<>>
    /\ ctx_last_op = "none"

\* add_event, lines 56-98: the builder is reset on an app change, build
\* encodes the text (semantic.py:360), and the snapshot is appended with the
\* ts of the state.  The token statistics are left out.
AddEvent(ocr_text, app_changed, dt) ==
    /\ total_snapshots < MaxSnapshots
    /\ ctx_now' = ctx_now + dt
    /\ deltas' = IF app_changed THEN <<InitialDelta(Summarize(ocr_text))>>
                 ELSE EncodeResult(ocr_text)
    /\ text_deltas' = deltas'
    /\ last_text' = ocr_text
    /\ last_lines' = Split(ocr_text)
    /\ op_log' = IF app_changed
                 THEN KeepLast3(KeepLast3(op_log, EncoderOp("reset", <<>>)),
                                EncoderOp("build", ocr_text))
                 ELSE KeepLast3(op_log, EncoderOp("build", ocr_text))
    /\ history' = HistoryAppend(history, ContextSnapshot(ctx_now', ctx_next_id))
    /\ ctx_next_id' = ctx_next_id + 1
    /\ total_snapshots' = total_snapshots + 1
    /\ ctx_last_op' = "add"
    /\ UNCHANGED <<query_params, query_events>>

\* query(params) with compact = False, lines 100-123: the events of the
\* result are those of the snapshots left after the filter and the slice.
Query(since_ts, limit) ==
    /\ query_params' = ContextQuery(since_ts, limit)
    /\ query_events' =
          EventIds_of(LastSlice(FilterBySince(history, since_ts), limit))
    /\ ctx_last_op' = "query"
    /\ UNCHANGED <<history, ctx_next_id, total_snapshots, ctx_now>>
    /\ UNCHANGED encoderVars

ContextNext ==
    \/ (\E ocr_text \in ContextTexts, app_changed \in BOOLEAN, dt \in {1, 2} :
           AddEvent(ocr_text, app_changed, dt)) /\ UNCHANGED notContextVars
    \/ (\E since_ts \in SinceValues, limit \in Limits : Query(since_ts, limit))
          /\ UNCHANGED notContextVars

-----------------------------------------------------------------------------
(* WebSocketSender: "self.events_dropped += 1" as the interpreter runs it.  *)
(* The statement loads the attribute, adds one and stores the result; send  *)
(* (line 102) runs on the thread of the caller and _process_queue (line     *)
(* 210) on the sender thread, with no lock, so a thread switch can fall     *)
(* between the load and the store.                                          *)

RaceInit ==
    /\ pread = [p \in Producers |-> 0]
    /\ wread = 0

\* send(), lines 101-102: the queue is full and events_dropped is loaded.
SendRefuseLoad(p) ==
    /\ ppc[p] = "idle"
    /\ next_id < MaxEvents
    /\ QueueFull(Cardinality(queue))
    /\ next_id' = next_id + 1
    /\ ppc' = [ppc EXCEPT ![p] = "drop"]
    /\ pread' = [pread EXCEPT ![p] = events_dropped]
    /\ ret' = [ret EXCEPT ![p] = "none"]
    /\ refused' = refused \cup {next_id + 1}
    /\ UNCHANGED <<max_queue_size, queue, connected, running,
                   backpressure_until, events_sent, events_dropped,
                   reconnect_count, clk, pev, workerVars, netVars, histVars,
                   wread>>

\* send(), lines 102-103: the sum is stored, and send returns False.
SendRefuseStore(p) ==
    /\ ppc[p] = "drop"
    /\ events_dropped' = pread[p] + 1
    /\ pread' = [pread EXCEPT ![p] = 0]
    /\ ppc' = [ppc EXCEPT ![p] = "idle"]
    /\ ret' = [ret EXCEPT ![p] = "False"]
    /\ UNCHANGED <<max_queue_size, queue, connected, running,
                   backpressure_until, events_sent, reconnect_count, clk, pev,
                   next_id, refused, workerVars, netVars, histVars, wread>>

\* send() when the queue is not full: lines 101 and 105-110.
SendAccept(p, priority) ==
    /\ ~QueueFull(Cardinality(queue))
    /\ SendCheck(p, priority)
    /\ UNCHANGED raceVars

\* _process_queue, lines 203-210: ws.send, ws.recv or the reading of the ack
\* raised, the event has no attempt left, and events_dropped is loaded.
ExceptDropLoad ==
    /\ wpc \in {"send", "recv"}
    /\ ~RetryAllowed(held.ev.attempts + 1)
    /\ \/ /\ wpc = "send" /\ ~conn_open
          /\ UNCHANGED <<netVars, awaiting>>
       \/ /\ wpc = "recv" /\ inbox = <<>> /\ ~conn_open
          /\ awaiting' = awaiting \ {held.ev.id}
          /\ UNCHANGED netVars
       \/ /\ wpc = "recv" /\ inbox # <<>> /\ Head(inbox) = "malformed"
          /\ inbox' = Tail(inbox)
          /\ unacked' = unacked - 1
          /\ awaiting' = awaiting \ {held.ev.id}
          /\ UNCHANGED conn_open
    /\ held' = [held EXCEPT !.ev.attempts = @ + 1]
    /\ wread' = events_dropped
    /\ wpc' = "drop"
    /\ UNCHANGED <<max_queue_size, queue, flagVars, backpressure_until,
                   events_sent, events_dropped, reconnect_count, clk,
                   producerVars, held_deq, tx_count, sent_count, tx_log,
                   dropped_log, wait_log, pread>>

\* _process_queue, line 210: the sum is stored and the event is let go.
ExceptDropStore ==
    /\ wpc = "drop"
    /\ events_dropped' = wread + 1
    /\ wread' = 0
    /\ dropped_log' = dropped_log \cup {held.ev}
    /\ held' = NoItem
    /\ held_deq' = 0
    /\ wpc' = "loop"
    /\ UNCHANGED <<max_queue_size, queue, flagVars, backpressure_until,
                   events_sent, reconnect_count, clk, producerVars, netVars,
                   awaiting, tx_count, sent_count, tx_log, wait_log, pread>>

\* The except branch with an attempt left: the event is put back.
RetryLeft == RetryAllowed(held.ev.attempts + 1)

RaceStep ==
    \/ Start /\ UNCHANGED notSenderVars
    \/ Stop /\ UNCHANGED notSenderVars
    \/ (\E p \in Producers, priority \in SentPriorities :
           SendAccept(p, priority)) /\ UNCHANGED notRaceVars
    \/ (\E p \in Producers : SendRefuseLoad(p)) /\ UNCHANGED notRaceVars
    \/ (\E p \in Producers : SendRefuseStore(p)) /\ UNCHANGED notRaceVars
    \/ (\E p \in Producers : SendPut(p)) /\ UNCHANGED notSenderVars
    \/ ConnectOk /\ UNCHANGED notSenderVars
    \/ ConnectFail /\ UNCHANGED notSenderVars
    \/ BackoffDone /\ UNCHANGED notSenderVars
    \/ AsyncLoopExit /\ UNCHANGED notSenderVars
    \/ ProcessQueueExit /\ UNCHANGED notSenderVars
    \/ BackpressureWait /\ UNCHANGED notSenderVars
    \/ GetEmpty /\ UNCHANGED notSenderVars
    \/ SleepDone /\ UNCHANGED notSenderVars
    \/ GetItem /\ UNCHANGED notSenderVars
    \/ WsSendOk /\ UNCHANGED notSenderVars
    \/ (WsSendRaises /\ RetryLeft) /\ UNCHANGED notSenderVars
    \/ (RecvAck /\ (Head(inbox) = "malformed" => RetryLeft))
          /\ UNCHANGED notSenderVars
    \/ RecvTimeout /\ UNCHANGED notSenderVars
    \/ (RecvRaises /\ RetryLeft) /\ UNCHANGED notSenderVars
    \/ ExceptDropLoad /\ UNCHANGED notRaceVars
    \/ ExceptDropStore /\ UNCHANGED notRaceVars
    \/ (\E kind \in AckKinds : RelayAck(kind)) /\ UNCHANGED notSenderVars
    \/ ConnectionLost /\ UNCHANGED notSenderVars
    \/ Tick /\ UNCHANGED notSenderVars

-----------------------------------------------------------------------------
(* OpenClawGateway: the connection, the connect exchange and the decision   *)
(* of send_agent_rpc to transmit, gateway.py:87-246 and 281-295.            *)

\* _max_reconnect_delay, and the delay after a failed authentication.
max_reconnect_delay == 60

AuthFailureDelay == 30

\* Number of send_agent_rpc calls the model follows.
MaxRpcs == 3

Max(a, b) == IF a > b THEN a ELSE b

\* A gateway that takes an open socket for a connection.
IsConnected_socket_only(ws, auth) == ws = "open"

\* is_connected, lines 80-81
IsConnected(ws, auth) == ws = "open" /\ auth

NoRpc == [called |-> FALSE, phase |-> "none", transmitted |-> FALSE,
          result |-> "none"]

GatewayInit ==
    /\ gw_pc = "idle"
    /\ gw_ws = "none"
    /\ authenticated = FALSE
    /\ gw_reconnect_delay = 1
    /\ rpc_id = 1
    /\ gw_pending = {}
    /\ challenged = FALSE
    /\ conn_phase = "none"
    /\ last_rpc = NoRpc

\* _connect_and_listen, lines 120-125: ws_connect succeeds.
WsConnect ==
    /\ gw_pc = "idle"
    /\ ~circuit_open
    /\ gw_ws' = "open"
    /\ authenticated' = FALSE
    /\ gw_reconnect_delay' = 1
    /\ gw_pc' = "listen"
    /\ challenged' = FALSE
    /\ conn_phase' = "handshake"
    /\ UNCHANGED <<rpc_id, gw_pending, last_rpc>>

\* run, lines 97-100: ws_connect raises.
WsConnectFails ==
    /\ gw_pc = "idle"
    /\ ~circuit_open
    /\ gw_pc' = "backoff"
    /\ UNCHANGED <<gw_ws, authenticated, gw_reconnect_delay, rpc_id,
                   gw_pending, challenged, conn_phase, last_rpc>>

\* _handle_message, lines 149-168: the challenge arrives and the connect
\* request is sent.
Challenge ==
    /\ gw_pc = "listen"
    /\ gw_ws = "open"
    /\ ~challenged
    /\ challenged' = TRUE
    /\ UNCHANGED <<gw_pc, gw_ws, authenticated, gw_reconnect_delay, rpc_id,
                   gw_pending, conn_phase, last_rpc>>

\* _handle_message, lines 171-184: the answer to the connect request.
ConnectResponse(ok) ==
    /\ gw_pc = "listen"
    /\ gw_ws = "open"
    /\ challenged
    /\ conn_phase = "handshake"
    /\ IF ok
       THEN /\ authenticated' = TRUE
            /\ conn_phase' = "ok"
            /\ UNCHANGED <<gw_ws, gw_reconnect_delay>>
       ELSE /\ gw_reconnect_delay' = Max(gw_reconnect_delay, AuthFailureDelay)
            /\ gw_ws' = "closed"
            /\ conn_phase' = "failed"
            /\ UNCHANGED authenticated
    /\ UNCHANGED <<gw_pc, rpc_id, gw_pending, challenged, last_rpc>>

\* send_agent_rpc, lines 209-246: None when the circuit is open or the
\* gateway is not connected; otherwise the RPC is registered and the request
\* is written to the socket.
SendAgentRpc ==
    LET goes == ~circuit_open /\ IsConnected(gw_ws, authenticated)
    IN  /\ rpc_id <= MaxRpcs
        /\ last_rpc' = [called |-> TRUE, phase |-> conn_phase,
                        transmitted |-> goes,
                        result |-> IF goes THEN "awaiting" ELSE "None"]
        /\ rpc_id' = IF goes THEN rpc_id + 1 ELSE rpc_id
        /\ gw_pending' = IF goes THEN gw_pending \cup {rpc_id} ELSE gw_pending
        /\ UNCHANGED <<gw_pc, gw_ws, authenticated, gw_reconnect_delay,
                       challenged, conn_phase>>

\* _handle_message, lines 187-201: the final response to a pending RPC.
FinalResponse(id) ==
    /\ gw_pc = "listen"
    /\ gw_ws = "open"
    /\ id \in gw_pending
    /\ gw_pending' = gw_pending \ {id}
    /\ UNCHANGED <<gw_pc, gw_ws, authenticated, gw_reconnect_delay, rpc_id,
                   challenged, conn_phase, last_rpc>>

\* The socket is closed: the peer closed it or the transport failed.
WsClosed ==
    /\ gw_pc = "listen"
    /\ gw_ws = "open"
    /\ gw_ws' = "closed"
    /\ conn_phase' = "none"
    /\ UNCHANGED <<gw_pc, authenticated, gw_reconnect_delay, rpc_id,
                   gw_pending, challenged, last_rpc>>

\* _connect_and_listen, lines 139-140, and _on_disconnect, lines 281-295.
OnDisconnect ==
    /\ gw_pc = "listen"
    /\ gw_ws = "closed"
    /\ gw_ws' = "none"
    /\ authenticated' = FALSE
    /\ gw_pending' = {}
    /\ gw_pc' = "backoff"
    /\ conn_phase' = IF conn_phase = "failed" THEN "failed" ELSE "none"
    /\ UNCHANGED <<gw_reconnect_delay, rpc_id, challenged, last_rpc>>

\* run, lines 105-114: the wait is over and the delay is doubled.
ReconnectWaitDone ==
    /\ gw_pc = "backoff"
    /\ gw_reconnect_delay' = Min(gw_reconnect_delay * 2, max_reconnect_delay)
    /\ gw_pc' = "idle"
    /\ UNCHANGED <<gw_ws, authenticated, rpc_id, gw_pending, challenged,
                   conn_phase, last_rpc>>

GatewayNext ==
    \/ WsConnect /\ UNCHANGED notGatewayVars
    \/ WsConnectFails /\ UNCHANGED notGatewayVars
    \/ Challenge /\ UNCHANGED notGatewayVars
    \/ (\E ok \in BOOLEAN : ConnectResponse(ok)) /\ UNCHANGED notGatewayVars
    \/ SendAgentRpc /\ UNCHANGED notGatewayVars
    \/ (\E id \in 1..MaxRpcs : FinalResponse(id)) /\ UNCHANGED notGatewayVars
    \/ WsClosed /\ UNCHANGED notGatewayVars
    \/ OnDisconnect /\ UNCHANGED notGatewayVars
    \/ ReconnectWaitDone /\ UNCHANGED notGatewayVars

-----------------------------------------------------------------------------
(* The in-flight flag of the wearable Sender under every outcome of the     *)
(* RPC: the sends of the section above, the intermediate "accepted" frame   *)
(* and a request that could not be written (sender.py:45-135,               *)
(* gateway.py:186-246).                                                     *)

\* The clock is read at this distance (s) while the flag is followed.
InFlightSteps == {60}

OrphanInit == orphan_timer = NoTimer

\* _handle_message, lines 191-195: the "accepted" frame of c's RPC is skipped;
\* the RPC stays pending and its timer keeps running.
Accepted(c) ==
    /\ c \in pending
    /\ is_connected
    /\ last_step' = Step("accepted")
    /\ UNCHANGED <<in_flight, sends_skipped, cpc, is_connected, pending,
                   rpc_timer, breakerVars, breakerHistVars, orphan_timer>>

\* send_frame/send_audio by c when send_str raises (gateway.py lines 217-241):
\* the RPC is registered and its timer runs, the exception leaves
\* send_agent_rpc, and the except and finally clauses of the caller run
\* (sender.py lines 94-100).  One such RPC is followed at a time.
SendRaises(c) ==
    /\ cpc[c] = "idle"
    /\ ~InFlightGuard(in_flight)
    /\ is_connected
    /\ ~CircuitRefuses(circuit_open)
    /\ orphan_timer = NoTimer
    /\ orphan_timer' = RpcTimeoutS
    /\ in_flight' = FALSE
    /\ MaybeLogStats
    /\ last_step' = CallStep(c, "raised", FALSE)
    /\ UNCHANGED <<cpc, is_connected, pending, rpc_timer, breakerVars,
                   breakerHistVars>>

\* on_timeout of the RPC whose request was not written (lines 223-228).
OrphanTimeout ==
    /\ TimerDue(orphan_timer)
    /\ orphan_timer' = NoTimer
    /\ OnRpcFailure
    /\ last_step' = Step("failure")
    /\ UNCHANGED <<in_flight, sends_skipped, cpc, is_connected, pending,
                   rpc_timer>>

\* _on_disconnect cancels every timer of _pending.
InFlightDisconnect == Disconnect /\ orphan_timer' = NoTimer

InFlightTick(dt) ==
    /\ WearTick(dt)
    /\ orphan_timer # NoTimer => dt <= orphan_timer
    /\ orphan_timer' = IF orphan_timer = NoTimer THEN NoTimer
                       ELSE orphan_timer - dt

InFlightNext ==
    \/ (\E c \in Callers : SendCall(c))
          /\ UNCHANGED <<notInFlightVars, orphan_timer>>
    \/ (\E c \in Callers : SendRaises(c)) /\ UNCHANGED notInFlightVars
    \/ (\E c \in Callers : Accepted(c)) /\ UNCHANGED notInFlightVars
    \/ (\E c \in Callers : ResponseOk(c))
          /\ UNCHANGED <<notInFlightVars, orphan_timer>>
    \/ (\E c \in Callers : ResponseError(c))
          /\ UNCHANGED <<notInFlightVars, orphan_timer>>
    \/ (\E c \in Callers : RpcTimeout(c))
          /\ UNCHANGED <<notInFlightVars, orphan_timer>>
    \/ OrphanTimeout /\ UNCHANGED notInFlightVars
    \/ InFlightDisconnect /\ UNCHANGED notInFlightVars
    \/ Connect /\ UNCHANGED <<notInFlightVars, orphan_timer>>
    \/ (\E c \in Callers : Resume(c))
          /\ UNCHANGED <<notInFlightVars, orphan_timer>>
    \/ ResetCircuit /\ UNCHANGED <<notInFlightVars, orphan_timer>>
    \/ (\E dt \in InFlightSteps : InFlightTick(dt))
          /\ UNCHANGED notInFlightVars

-----------------------------------------------------------------------------
(* Specifications *)

Init ==
    /\ GateInit /\ SenderInit /\ CacheInit /\ EncoderInit /\ DetectorInit
    /\ LoopInit /\ WearableInit /\ AdaptiveInit
    /\ ClassifierInit /\ TrackerInit /\ ContextInit /\ RaceInit
    /\ GatewayInit
    /\ OrphanInit

GateNext == ClassifyCall /\ UNCHANGED notGateVars

GateSpec == Init /\ [][GateNext]_vars

SenderStep ==
    \/ Start /\ UNCHANGED notSenderVars
    \/ Stop /\ UNCHANGED notSenderVars
    \/ (\E p \in Producers, priority \in SentPriorities : SendCheck(p, priority)) /\ UNCHANGED notSenderVars
    \/ (\E p \in Producers : SendPut(p)) /\ UNCHANGED notSenderVars
    \/ ConnectOk /\ UNCHANGED notSenderVars
    \/ ConnectFail /\ UNCHANGED notSenderVars
    \/ BackoffDone /\ UNCHANGED notSenderVars
    \/ AsyncLoopExit /\ UNCHANGED notSenderVars
    \/ ProcessQueueExit /\ UNCHANGED notSenderVars
    \/ BackpressureWait /\ UNCHANGED notSenderVars
    \/ GetEmpty /\ UNCHANGED notSenderVars
    \/ SleepDone /\ UNCHANGED notSenderVars
    \/ GetItem /\ UNCHANGED notSenderVars
    \/ WsSendOk /\ UNCHANGED notSenderVars
    \/ WsSendRaises /\ UNCHANGED notSenderVars
    \/ RecvAck /\ UNCHANGED notSenderVars
    \/ RecvTimeout /\ UNCHANGED notSenderVars
    \/ RecvRaises /\ UNCHANGED notSenderVars
    \/ (\E kind \in AckKinds : RelayAck(kind)) /\ UNCHANGED notSenderVars
    \/ ConnectionLost /\ UNCHANGED notSenderVars
    \/ Tick /\ UNCHANGED notSenderVars

SenderSpec == Init /\ [][SenderStep]_vars

CacheSpec == Init /\ [][CacheNext]_vars

EncoderSpec == Init /\ [][EncoderNext]_vars

DetectorSpec == Init /\ [][DetectorNext]_vars

LoopSpec == Init /\ [][LoopNext]_vars

WearableSpec == Init /\ [][WearableNext]_vars

\* Time passes and the event loop runs what is due: the timers and the tasks
\* whose future is resolved.
WearableFairSpec ==
    /\ WearableSpec
    /\ WF_vars((\E dt \in WearTimeSteps : WearTick(dt))
                  /\ UNCHANGED notWearableVars)
    /\ WF_vars(ResetCircuit /\ UNCHANGED notWearableVars)
    /\ WF_vars((\E c \in Callers : Resume(c)) /\ UNCHANGED notWearableVars)
    /\ WF_vars((\E c \in Callers : RpcTimeout(c)) /\ UNCHANGED notWearableVars)

\* The sender thread keeps running: asyncio runs the task whenever it can
\* take a step.
SenderFairSpec == SenderSpec /\ WF_vars(WorkerNext /\ UNCHANGED notSenderVars)

AdaptiveSpec == Init /\ [][AdaptiveNext]_vars

ClassifierSpec == Init /\ [][ClassifierNext]_vars

TrackerSpec == Init /\ [][TrackerNext]_vars

ContextSpec == Init /\ [][ContextNext]_vars

SenderRaceSpec == Init /\ [][RaceStep]_vars

GatewaySpec == Init /\ [][GatewayNext]_vars

InFlightSpec == Init /\ [][InFlightNext]_vars

\* The event loop runs what is due and time passes.
InFlightFairSpec ==
    /\ InFlightSpec
    /\ WF_vars((\E dt \in InFlightSteps : InFlightTick(dt))
                  /\ UNCHANGED notInFlightVars)
    /\ WF_vars(ResetCircuit /\ UNCHANGED <<notInFlightVars, orphan_timer>>)
    /\ WF_vars((\E c \in Callers : Resume(c))
                  /\ UNCHANGED <<notInFlightVars, orphan_timer>>)
    /\ WF_vars((\E c \in Callers : RpcTimeout(c))
                  /\ UNCHANGED <<notInFlightVars, orphan_timer>>)
    /\ WF_vars(OrphanTimeout /\ UNCHANGED notInFlightVars)

-----------------------------------------------------------------------------
(* DecisionGate: properties *)

\* C1: whatever the sequence of classify calls and their inputs, an event of
\* type text that classify returns carries an ocr string of at least
\* min_ocr_chars characters.
C1_TextEventHasMinChars ==
    returned.type = "text" => Len(returned.ocr) >= min_ocr_chars

\* classify has returned a text event.
C1_Witness == returned.type = "text" /\ Len(returned.ocr) > 0

C3_ContextEventsSpaced ==
    Len(context_log) = 2 => context_log[2] - context_log[1] >= context_cooldown_ms

\* A second context event was emitted, exactly context_cooldown_ms after the
\* first one.
C3_Witness ==
    /\ Len(context_log) = 2
    /\ returned.type = "context"
    /\ context_log[2] - context_log[1] = context_cooldown_ms

-----------------------------------------------------------------------------
(* WebSocketSender: properties *)

QueuedIds == {x.ev.id : x \in queue}

\* C4: the queue never holds more than max_queue_size events, also with
\* several producers in send() at once and with the sender task re-queueing
\* an event whose transmission failed.
C4_QueueBounded == Cardinality(queue) <= max_queue_size

\* C5 as claimed: the transmitted events are non-decreasing in (priority,
\* enqueue timestamp) over the whole run.
C5_TransmittedInOrder ==
    Len(tx_log) = 2 => ~KeyLess(tx_log[2], tx_log[1])

\* C5, amended: the event the sender task takes is the least in (priority,
\* enqueue timestamp) among the events queued at that moment; a transmission
\* is out of order with its predecessor only if it was enqueued (or
\* re-queued) after the predecessor had been taken from the queue.
C5_DequeuesLeast ==
    /\ [][wpc = "loop" /\ wpc' = "send" =>
            \A x \in queue' : KeyLess(held', x)]_vars
    /\ [](Len(tx_log) = 2 /\ KeyLess(tx_log[2], tx_log[1]) =>
            tx_log[2].kts >= tx_log[1].deq)

\* The sender task holds an event it took while another one was queued.
C5_Witness ==
    /\ wpc = "send"
    /\ \E x \in queue : x.kts < held_deq

\* C6: a send() that finds max_queue_size (or more) events queued returns
\* False, increments events_dropped by exactly one and leaves the queue
\* unchanged; the refused event is never queued nor transmitted afterwards.
C6_RefusedOnFull ==
    /\ [][next_id' # next_id /\ Cardinality(queue) >= max_queue_size =>
            /\ refused' = refused \cup {next_id'}
            /\ events_dropped' = events_dropped + 1
            /\ queue' = queue
            /\ ppc' = ppc
            /\ \E p \in Producers :
                  /\ ret'[p] = "False"
                  /\ \A q \in Producers \ {p} : ret'[q] = ret[q]]_vars
    /\ [](\A i \in refused :
            /\ tx_count[i] = 0
            /\ i \notin QueuedIds
            /\ held.ev.id # i
            /\ \A p \in Producers : pev[p].id # i)

\* An event was refused, another one was transmitted, and nothing is left
\* to send.
C6_Witness ==
    /\ refused # {}
    /\ events_dropped >= 1
    /\ \E i \in EventIds : tx_count[i] > 0
    /\ queue = {}
    /\ held = NoItem
    /\ \A p \in Producers : ppc[p] = "idle"

\* C7 as claimed: on one connection at most one written message is without
\* its ack at any time.
C7_OneUnacknowledged == unacked <= 1

\* C7, amended: the sender task waits for the ack of at most one message at
\* a time and writes the next event only when that wait is over (an ack was
\* read, the 2 s ran out, or recv raised); after a timeout the earlier
\* message may still be unacknowledged when the next one is written.
C7_OneAwaited ==
    /\ Cardinality(awaiting) <= 1
    /\ wpc = "send" => awaiting = {}
    /\ awaiting # {} => wpc = "recv" /\ awaiting = {held.ev.id}

\* The sender task waits for an ack while an earlier message is still
\* unacknowledged.
C7_Witness ==
    /\ wpc = "recv"
    /\ unacked = 2
    /\ Cardinality(awaiting) = 1

\* C8: while the connection stays open, an event written to the socket
\* without error is written only once, is never re-queued, and is counted
\* once in events_sent as soon as the wait for its ack is over, whatever the
\* ack holds and also when none arrives.
C8_WrittenOnceCountedOnce ==
    conn_open =>
        \A i \in EventIds :
            /\ tx_count[i] <= 1
            /\ tx_count[i] >= 1 => i \notin QueuedIds
            /\ tx_count[i] >= 1 /\ i \notin awaiting => sent_count[i] = 1

\* C9 as claimed: an event is re-queued once; its second failure drops it.
C9_RequeuedOnce ==
    /\ \A x \in queue : x.ev.attempts <= 1
    /\ \A d \in dropped_log : d.attempts = 2

\* C9, amended: an event whose transmission raises is re-queued, at its
\* original priority + 1 on every retry, as long as it has failed fewer than
\* 3 times, so at most twice; its third failure drops it and counts it in
\* events_dropped.
C9_RequeuedTwiceThenDropped ==
    /\ [](\A x \in queue :
            /\ x.ev.attempts <= 2
            /\ x.kp = x.ev.priority + (IF x.ev.attempts > 0 THEN 1 ELSE 0))
    /\ [](\A d \in dropped_log :
            /\ d.attempts = 3
            /\ d.id \notin QueuedIds
            /\ held.ev.id # d.id)
    /\ [][dropped_log' # dropped_log =>
            /\ events_dropped' = events_dropped + 1
            /\ queue' = queue]_vars

\* An event was dropped after its third failed transmission.
C9_Witness ==
    /\ dropped_log # {}
    /\ events_dropped >= 1

\* C10: if the connection closes while the sender is running, the sender
\* task eventually leaves _process_queue and is back at websockets.connect.
C10_ReconnectsAfterClose ==
    (running /\ wpc \in InProcessQueue /\ ~conn_open) ~> (wpc = "connect")

\* C11: the sleeps after consecutive failed connection attempts are
\* reconnect_delay, then twice the one before, and at most 60 s.
C11_BackoffDoubles ==
    \A i \in 1..Len(wait_log) :
        LET d == reconnect_delay * 2^(i - 1)
        IN  wait_log[i] = IF d > 60 THEN 60 ELSE d

\* C12: after an ack with a positive backpressure B is processed at time t,
\* the sender task takes nothing from the queue and writes nothing to the
\* socket while the clock is below t + B; what is enqueued in that time stays
\* queued.
C12_BackpressureSuppressesSends ==
    /\ [](clk < backpressure_until =>
            held = NoItem /\ wpc \notin {"send", "recv"})
    /\ [][clk < backpressure_until =>
            queue \subseteq queue' /\ tx_count' = tx_count]_vars

\* The sender task sleeps under backpressure while an event that was
\* enqueued after the ack waits in the queue.
C12_Witness ==
    /\ wpc = "bp_sleep"
    /\ clk < backpressure_until
    /\ \E x \in queue : x.kts >= backpressure_until - BackpressureTicks

\* C13: an URGENT event that is enqueued while NORMAL events wait in the
\* queue goes out ahead of them: the sender task never takes a NORMAL event
\* while an URGENT one is queued, and when it writes a NORMAL event every
\* URGENT event in the queue was enqueued after that NORMAL event was taken.
C13_UrgentOvertakesWaitingNormal ==
    /\ [][wpc = "loop" /\ wpc' = "send" /\ held'.ev.priority = NORMAL =>
            \A x \in queue : x.ev.priority # URGENT]_vars
    /\ [][tx_count' # tx_count /\ held.ev.priority = NORMAL =>
            \A x \in queue :
                x.ev.priority = URGENT => x.kts >= held_deq]_vars

\* With room for both in the queue and nothing refused, an URGENT event has
\* been written to the socket while a NORMAL event that was enqueued before
\* it still waits.
C13_Witness ==
    /\ max_queue_size = 2
    /\ refused = {}
    /\ wpc = "recv"
    /\ held.ev.priority = URGENT
    /\ tx_count[held.ev.id] = 1
    /\ \E x \in queue :
          /\ x.ev.priority = NORMAL
          /\ x.ev.attempts = 0
          /\ x.kts < held.kts

-----------------------------------------------------------------------------
(* OCRCache: properties *)

\* C14: the cache never holds more than max_size entries once a put or a
\* get_or_compute has returned, also with get_or_compute running on several
\* pool threads at once.
C14_CacheSizeBounded == Len(cache) <= max_size

\* C15: over all get_or_compute calls on images with one content
\* fingerprint, in any interleaving, ocr_func is invoked at most once and
\* all the calls return the same OCRResult.
C15_OneOcrPerFingerprint ==
    \A k \in CacheKeys :
        /\ ocr_calls[k] <= 1
        /\ Cardinality(goc_returns[k]) <= 1

\* C16: the entry a put evicts is the least recently read or written of the
\* entries in the cache.
C16_EvictsLeastRecentlyTouched ==
    [][evictions' # evictions =>
          Head(cache).key = Head(touch_order)]_vars

-----------------------------------------------------------------------------
(* DeltaEncoder: properties *)

\* The latest operation on the encoder, and the ones before it.
LastOp == op_log[Len(op_log)]

PrevOp == op_log[Len(op_log) - 1]

IsEncodeOp(o) == o.op \in {"encode", "build"}

\* C17: for every text t and every state of the encoder, the second of two
\* encode(t) calls in a row returns an empty list.
C17_SecondEncodeIsEmpty ==
    Len(op_log) >= 2 /\ IsEncodeOp(LastOp) /\ IsEncodeOp(PrevOp)
      /\ LastOp.text = PrevOp.text
    => deltas = <<>>

\* C18: encode(t), reset(), encode(t) returns exactly one delta, of kind
\* initial, location "full" and content of at most summarize_max_len
\* characters (the summary of t).
C18_InitialAfterReset ==
    Len(op_log) = 3 /\ IsEncodeOp(op_log[1]) /\ op_log[2].op = "reset"
      /\ IsEncodeOp(op_log[3]) /\ op_log[3].text = op_log[1].text
    => /\ Len(deltas) = 1
       /\ deltas[1].type = "initial"
       /\ deltas[1].location = "full"
       /\ Len(deltas[1].content) <= summarize_max_len
       /\ deltas[1].content = Summarize(op_log[3].text)

\* encode(t), reset(), encode(t) for a t of six lines, whose summary is cut.
C18_Witness ==
    /\ Len(op_log) = 3
    /\ IsEncodeOp(op_log[1]) /\ op_log[1].text = Text_six_lines
    /\ op_log[2].op = "reset"
    /\ IsEncodeOp(op_log[3]) /\ op_log[3].text = Text_six_lines
    /\ Len(deltas) = 1
    /\ Len(deltas[1].content) = summarize_max_len

-----------------------------------------------------------------------------
(* ChangeDetector: properties *)

\* C20: once a key frame exists, a detect call that returns None because of
\* a fast-gate reject, an SSIM score at or above the threshold, or no
\* connected component of at least min_area leaves the key frame as it was.
C20_KeyFrameKeptOnNone ==
    key_before # NoFrame
      /\ detect_exit \in {"fast_gate", "ssim", "no_contours"}
    => prev_frame = key_before


\* C21: when the SSIM or the contour computation inside detect fails, detect
\* returns none (no exception leaves it for the orchestrator loop) and both
\* the previous key frame and the fast gate's previous hash are what they
\* were before the call.
C21_FailureLeavesStateAlone ==
    detect_exit \in {"ssim_error", "contour_error"}
    => /\ ~detect_raised
       /\ detected = NoChangeResult
       /\ prev_frame = key_before
       /\ prev_hash = hash_before


\* C22: in the orchestrator loop the text given to the semantic builder and to
\* the decision gate, and the ocr field of every event handed to the sender,
\* is the OCR text after privacy redaction, never the raw OCR output.
C22_ConsumersSeeRedactedText ==
    /\ builder_text = apply_privacy(ocr_raw)
    /\ gate_text = apply_privacy(ocr_raw)
    /\ handed.type \in {"text", "visual"} => handed.ocr = apply_privacy(ocr_raw)


\* A step in which task c's call of send_frame/send_audio is made.
IsCall == last_step'.kind = "call"

\* C23: in the wearable Sender at most one agent RPC is outstanding at any
\* time, and a call of send_frame or send_audio made while another send is in
\* flight returns false, increments the skipped counter and transmits nothing.
C23_OneRpcOutstanding ==
    /\ [](Cardinality(pending) <= 1)
    /\ [][(IsCall /\ in_flight)
            => /\ last_step'.result = "False"
               /\ ~last_step'.transmitted
               /\ sends_skipped' = sends_skipped + 1
               /\ pending' = pending]_vars

C23_Witness ==
    /\ last_step.kind = "call"
    /\ last_step.result = "False"
    /\ in_flight
    /\ is_connected
    /\ pending # {}
    /\ last_step.caller \notin pending

\* C24: the breaker goes from closed to open exactly in a step that records an
\* RPC failure which brings the failures of the preceding CIRCUIT_WINDOW_S
\* seconds to CIRCUIT_THRESHOLD or more.
C24_OpensAtThresholdInWindow ==
    [][(~circuit_open /\ circuit_open')
         <=> /\ ~circuit_open
             /\ last_step'.kind = "failure"
             /\ Len(failure_log') >= CIRCUIT_THRESHOLD]_vars

C24_Witness ==
    /\ circuit_open
    /\ open_for = 0
    /\ last_step.kind = "failure"
    /\ Len(failure_log) = CIRCUIT_THRESHOLD
    /\ \E i \in 1..Len(failure_log) : failure_log[i] > 0

\* C25: when the breaker opens with reset period R, every send attempted while
\* it is open is refused without an RPC being transmitted, the breaker is open
\* for R seconds and no longer, it closes after them, and once closed a send
\* on a connected gateway with nothing in flight is transmitted.
C25_RefusesForResetPeriod ==
    /\ [][(IsCall /\ circuit_open)
            => /\ last_step'.result = "False"
               /\ ~last_step'.transmitted
               /\ pending' = pending]_vars
    /\ [](circuit_open => open_for <= open_period)
    /\ [][(circuit_open /\ ~circuit_open') => open_for = open_period]_vars
    /\ [][(IsCall /\ ~circuit_open /\ is_connected /\ ~in_flight)
            => last_step'.transmitted]_vars
    /\ [](circuit_open => <>(~circuit_open))

C25_Witness ==
    /\ ~circuit_open
    /\ trips >= 1
    /\ refused_open
    /\ last_step.kind = "call"
    /\ last_step.transmitted

\* C26: circuit_reset_s never exceeds MAX_CIRCUIT_RESET_S, and the k-th trip
\* in a row with no successful RPC in between keeps the breaker open for
\* min(300 * 2^(k-1), 1800) seconds.
C26_ResetPeriodDoublesToCap ==
    /\ circuit_reset_s <= MAX_CIRCUIT_RESET_S
    /\ circuit_open =>
          open_for + circuit_reset_timer =
              Min(InitialCircuitResetS * 2 ^ (trips - 1), MAX_CIRCUIT_RESET_S)

C26_Witness ==
    /\ circuit_open
    /\ trips = 4
    /\ circuit_reset_timer = MAX_CIRCUIT_RESET_S

\* C27: a successful agent RPC halves circuit_reset_s.
C27_SuccessHalvesResetPeriod ==
    [][last_step'.kind = "success" => 2 * circuit_reset_s' = circuit_reset_s]_vars

\* C28: a successful agent RPC clears the recent failures, so that no failure
\* from before it is left to count toward CIRCUIT_THRESHOLD.
C28_SuccessClearsFailures ==
    [][last_step'.kind = "success" => recent_failures' = <<>>]_vars


\* C29: classify changes last_app_change_ts only in a call that emits a
\* context event; a call that reports an app or window change while the
\* context cooldown is running leaves it unchanged.
C29_AppChangeTsOnlyWithContextEvent ==
    [][last_app_change_ts' # last_app_change_ts
         => returned'.type = "context"]_vars

\* C30: last_send_ts is the time of the latest emitted event of any type, and
\* when classify emits a text or visual event at time t, the event emitted
\* before it is at least adaptive_cooldown_ms before t if
\* t - last_app_change_ts < 10 000 ms, and at least cooldown_ms otherwise.
C30_TextAndVisualEventsSpaced ==
    [][/\ returned' # NoEvent => last_send_ts' = now' /\ returned'.ts = now'
       /\ returned' = NoEvent => last_send_ts' = last_send_ts
       /\ returned'.type \in {"text", "visual"}
             => now' - last_send_ts >=
                   IF now' - last_app_change_ts' < RecentAppChangeMs
                   THEN adaptive_cooldown_ms ELSE cooldown_ms]_vars

\* A text or visual event exactly adaptive_cooldown_ms after a context event.
C30_Witness ==
    /\ returned.type \in {"text", "visual"}
    /\ Len(context_log) >= 1
    /\ returned.ts - context_log[Len(context_log)] = adaptive_cooldown_ms
    /\ last_send_ts = returned.ts
-----------------------------------------------------------------------------
(* DeltaEncoder: the kind of the deltas of every call *)

\* C31: encode returns a delta of kind initial only on the first call after
\* construction or reset(); every other call returns only add, remove or
\* modify deltas (or an empty list), computed against the text passed to the
\* call just before it.
C31_InitialOnlyOnFirstCall ==
    Len(op_log) >= 2 /\ IsEncodeOp(LastOp) =>
        IF PrevOp.op \in {"create", "reset"}
        THEN Len(deltas) = 1 /\ deltas[1].type = "initial"
        ELSE LET before == Split(PrevOp.text)
                 current == Split(LastOp.text)
             IN  /\ \A i \in 1..Len(deltas) :
                       deltas[i].type \in {"add", "remove", "modify"}
                 /\ deltas = LineDeltas(before, current,
                                        1, Len(before), 1, Len(current))

-----------------------------------------------------------------------------
(* Orchestrator loop: the adaptive SSIM threshold *)

\* C32: after the adaptive-threshold step of every processed frame the
\* detector's SSIM threshold is the sensitive value if an app change was
\* reported on this frame or within the preceding 10 s, and the configured
\* stable value otherwise; it never holds any other value.
C32_ThresholdFollowsAppChange ==
    /\ threshold \in {ssim_sensitive_threshold, ssim_stable_threshold}
    /\ loop_pc = "detect" =>
          threshold =
              IF frame_app_changed
                 \/ (last_app_change_time # 0
                     /\ now_sec - last_app_change_time <= AdaptiveWindowS)
              THEN ssim_sensitive_threshold
              ELSE ssim_stable_threshold

\* A frame without an app change, more than 10 s after the latest one, has
\* the stable threshold back.
C32_Witness ==
    /\ loop_pc = "detect"
    /\ ~frame_app_changed
    /\ last_app_change_time > 0
    /\ now_sec - last_app_change_time > AdaptiveWindowS
    /\ threshold = ssim_stable_threshold

-----------------------------------------------------------------------------
(* ActivityClassifier: properties *)

\* The signals of the seventh rung: changeRate < 0.1, durationS > 30, and no
\* navigation, error, loading, typing or scrolling condition.
IdleSignals ==
    /\ signals_log.called
    /\ signals_log.signals.change_rate < 10
    /\ signals_log.signals.duration_s > 30
    /\ ~signals_log.signals.navigated
    /\ ~signals_log.signals.ocr_contains_error
    /\ ~detect_error_content(signals_log.ocr_text)
    /\ ~signals_log.signals.ocr_contains_loading
    /\ ~detect_loading_content(signals_log.ocr_text)
    /\ signals_log.signals.vertical_motion <= 50

\* C33: classify can return idle: for signals with changeRate < 0.1,
\* durationS > 30 and no navigation, error, loading, typing or scrolling
\* condition, the first-match ladder yields idle.
C33_IdleSignalsYieldIdle == IdleSignals => activity = "idle"

\* No classify call returns idle, whatever its signals.
ClassifyNeverIdle == activity # "idle" /\ last_activity # "idle"

-----------------------------------------------------------------------------
(* RegionTracker: properties *)

\* C34: every operation that classifies cells agrees with "stable iff
\* stabilityScore > 0.5": the is_stable flag of analyze, get_stable_regions,
\* get_dynamic_regions and the counts of get_stats treat a cell as stable
\* exactly when its score is strictly greater than 0.5.
C34_StableIffAboveHalf ==
    LET stable == {c \in GridCells :
                      grid[c].registered /\ grid[c].stability_score > ScoreHalf}
        registered == {c \in GridCells : grid[c].registered}
    IN  /\ \A r \in changed_regions :
              grid[r.index].registered =>
                  (r.is_stable <=> grid[r.index].stability_score > ScoreHalf)
        /\ get_stable_regions = stable
        /\ get_dynamic_regions = registered \ stable
        /\ get_stats.stable_regions = Cardinality(stable)
        /\ get_stats.dynamic_regions = Cardinality(registered \ stable)

\* C35: a cell whose hash never changed since it was registered, and that has
\* been observed unchanged in at least stability_min_samples analyses over
\* more than stability_threshold_s seconds, has had its stability score
\* raised.
C35_UnchangedCellScoreRises ==
    \A c \in GridCells :
        /\ grid[c].registered
        /\ grid[c].change_count = 0
        /\ grid[c].seen_unchanged >= stability_min_samples
        /\ grid[c].since_change > stability_threshold_s
        => grid[c].stability_score > 0

-----------------------------------------------------------------------------
(* ContextBuilder: properties *)

\* The snapshots of the history that pass the sinceTs filter of the latest
\* query, oldest first, and the statement that the query returned the latest
\* of them, up to its limit.
PassingSnapshots ==
    SelectSeq(history,
              LAMBDA s : query_params.since_ts = NoSince
                         \/ s.ts >= query_params.since_ts)

LatestUpToLimit ==
    LET passing == PassingSnapshots
        n == IF query_params.limit < Len(passing)
             THEN query_params.limit ELSE Len(passing)
    IN  /\ Len(query_events) <= query_params.limit
        /\ query_events = [i \in 1..n |-> passing[Len(passing) - n + i].id]

\* C36: for every limit >= 0 and every history, query returns at most limit
\* events, and they are the most recent snapshots that pass the sinceTs
\* filter, in chronological order.
C36_QueryReturnsLatestUpToLimit == ctx_last_op = "query" => LatestUpToLimit

\* The same for the queries with a limit of at least 1.
QueryReturnsLatestForPositiveLimit ==
    ctx_last_op = "query" /\ query_params.limit > 0 => LatestUpToLimit

-----------------------------------------------------------------------------
(* DecisionGate: is_ready and classify *)

\* C37: for every gate state, instant and flag values, is_ready returns true
\* if and only if classify, called at the same instant with the same flags,
\* is not rejected by a cooldown: it emits a context event or goes past the
\* adaptive-cooldown test.
C37_ReadyIffClassifyPassesCooldown ==
    [][\A change \in SsimPool \cup {NoChange}, text \in TextPool,
          app_changed \in BOOLEAN, window_changed \in BOOLEAN :
            Classify(now', change, text, app_changed, window_changed) =>
                LET passed ==
                        \/ returned'.type = "context"
                        \/ now' - last_send_ts >=
                               EffectiveCooldown(now', last_app_change_ts')
                IN  is_ready(now', app_changed, window_changed) <=> passed]_vars

-----------------------------------------------------------------------------
(* WebSocketSender: the account of the events *)

\* The events a thread has in hand: the one the sender task took from the
\* queue, and those of the send calls that have not returned yet.
InHand ==
    (IF held = NoItem THEN 0 ELSE 1)
      + Cardinality({p \in Producers : ppc[p] # "idle"})

\* C38: at every point of a run the number of send calls made so far equals
\* events_sent + events_dropped + the number of events in the queue + the
\* number of events in hand, also when send runs on another thread than the
\* sender task: no counter update is lost and no event is counted twice.
C38_EverySendAccountedFor ==
    next_id = events_sent + events_dropped + Cardinality(queue) + InHand

-----------------------------------------------------------------------------
(* OpenClawGateway: properties of the connection *)

\* C39: send_agent_rpc transmits an agent request only on a connection whose
\* connect request was answered with ok = true; before the challenge/connect
\* exchange completes, after a failed authentication, or after a disconnect
\* it returns None without transmitting anything.
C39_TransmitsOnlyWhenAuthenticated ==
    last_rpc.called =>
        /\ last_rpc.transmitted => last_rpc.phase = "ok"
        /\ last_rpc.phase \in {"none", "handshake", "failed"} =>
              ~last_rpc.transmitted /\ last_rpc.result = "None"

\* An RPC refused after a failed authentication, after one that was
\* transmitted on an authenticated connection.
C39_Witness ==
    /\ last_rpc.called
    /\ last_rpc.phase = "failed"
    /\ last_rpc.result = "None"
    /\ rpc_id > 1

-----------------------------------------------------------------------------
(* Wearable Sender: the in-flight flag is always cleared *)

\* C40: every send_frame or send_audio call that sets the in-flight flag
\* eventually clears it, whatever the outcome of the RPC (final response,
\* error response, "accepted" followed by silence until the 60 s timeout,
\* disconnect, open circuit, or exception), so the guard never stays set
\* forever.
C40_InFlightEventuallyCleared == in_flight ~> ~in_flight

\* The flag is set and the RPC has been accepted but not answered.
C40_Witness ==
    /\ in_flight
    /\ last_step.kind = "accepted"
    /\ \E c \in Callers : c \in pending /\ rpc_timer[c] < RpcTimeoutS

=============================================================================
